---- MODULE Spec2Model ----
(***************************************************************************)
(* Verification model of duckdb-mongo: document materialization            *)
(* (FlattenDocument / ValidateDocumentSchema), find-filter pushdown        *)
(* (ConvertFiltersToMongoQuery), scan initialisation and the scan loop     *)
(* (MongoScanInitLocal / MongoScanFunction) and the plan rewriter          *)
(* (RewriteMongoTopN / RewriteMongoAggregate).                             *)
(***************************************************************************)
EXTENDS Integers, Sequences, FiniteSets, TLC

(***************************************************************************)
(* Bounds of the model.                                                    *)
(***************************************************************************)
MaxSample == 2
MaxDocs == 2
MaxConst == 2

(***************************************************************************)
(* BSON values.  A scalar element is [t |-> bson type, v |-> payload];     *)
(* an array is [t |-> "array", elems |-> sequence of elements]; a nested   *)
(* document is [t |-> "document", doc |-> function from keys to elements]. *)
(* A document is a function whose domain is the set of keys it holds.      *)
(* A double payload counts tenths (25 is 2.5).                             *)
(***************************************************************************)
Missing == [t |-> "missing"]

Elem(t, v) == [t |-> t, v |-> v]

ArrayElem(es) == [t |-> "array", elems |-> es]

DocElem(d) == [t |-> "document", doc |-> d]

\* bsoncxx document::view::operator[]: the element under a key, or an
\* invalid (missing) element.
Lookup(d, key) == IF key \in DOMAIN d THEN d[key] ELSE Missing

Present(e) == e.t # "missing"

(***************************************************************************)
(* Logical types.                                                          *)
(***************************************************************************)
T(id) == [id |-> id]

ListOf(child) == [id |-> "LIST", child |-> child]

StructOf(names, types) == [id |-> "STRUCT", names |-> names, types |-> types]

VARCHAR == T("VARCHAR")
BIGINT == T("BIGINT")
HUGEINT == T("HUGEINT")
DOUBLE == T("DOUBLE")
SQLBOOLEAN == T("BOOLEAN")
DATE == T("DATE")
TIMESTAMP == T("TIMESTAMP")
BLOB == T("BLOB")

\* Value(type): the typed SQL NULL.
NullValue == [k |-> "NULL"]

\* A vector slot nothing was written to (stale data of the previous batch).
Unset == [k |-> "UNSET"]

Val(ty, v) == [k |-> "VAL", ty |-> ty, v |-> v]

ListVal(es) == [k |-> "LIST", elems |-> es]

StructVal(fs) == [k |-> "STRUCT", fields |-> fs]

\* static_cast<int64_t>(double): truncation toward zero of a payload in tenths.
TruncTenths(v) == IF v >= 0 THEN v \div 10 ELSE -((-v) \div 10)

(***************************************************************************)
(* Type inference.                                                         *)
(***************************************************************************)
InferTypeFromBSONElement(e) ==
    CASE e.t = "string" -> VARCHAR
      [] e.t \in {"int32", "int64"} -> BIGINT
      [] e.t \in {"double", "decimal128"} -> DOUBLE
      [] e.t = "bool" -> SQLBOOLEAN
      [] e.t = "date" -> IF ((e.v \div 1000) % 86400) = 0 THEN DATE ELSE TIMESTAMP
      [] e.t = "binary" -> BLOB
      [] OTHER -> VARCHAR

RECURSIVE TypeListDepth(_)
TypeListDepth(ty) == IF ty.id = "LIST" THEN 1 + TypeListDepth(ty.child) ELSE 0

CountOf(types, ty) == Cardinality({i \in DOMAIN types : types[i] = ty})

FirstWhere(types, P(_)) ==
    types[CHOOSE i \in DOMAIN types : P(types[i]) /\ \A j \in DOMAIN types : P(types[j]) => i <= j]

ResolveTypeConflict(types) ==
    LET n == Len(types)
        isList(ty) == ty.id = "LIST"
        isStruct(ty) == ty.id = "STRUCT"
        maxDepth == CHOOSE m \in 0..10 :
                       /\ \A i \in DOMAIN types : TypeListDepth(types[i]) <= m
                       /\ \E i \in DOMAIN types : TypeListDepth(types[i]) = m
        isDeepest(ty) == ty.id = "LIST" /\ TypeListDepth(ty) = maxDepth
        dc == CountOf(types, DOUBLE)
        bc == CountOf(types, BIGINT)
        vc == CountOf(types, VARCHAR)
        boc == CountOf(types, SQLBOOLEAN)
        tc == CountOf(types, TIMESTAMP)
    IN  IF n = 0 THEN VARCHAR
        ELSE IF \A i \in DOMAIN types : types[i] = types[1] THEN types[1]
        ELSE IF \E i \in DOMAIN types : isList(types[i]) THEN FirstWhere(types, isDeepest)
        ELSE IF \E i \in DOMAIN types : isStruct(types[i]) THEN FirstWhere(types, isStruct)
        ELSE IF vc > (n * 7) \div 10 THEN VARCHAR
        ELSE IF dc > 0 /\ dc >= (n * 3) \div 10 THEN DOUBLE
        ELSE IF bc > 0 /\ bc >= (n * 3) \div 10 THEN BIGINT
        ELSE IF boc >= (n * 7) \div 10 THEN SQLBOOLEAN
        ELSE IF tc >= (n * 7) \div 10 THEN TIMESTAMP
        ELSE IF dc > 0 THEN DOUBLE
        ELSE IF bc > 0 THEN BIGINT
        ELSE IF boc > 0 THEN SQLBOOLEAN
        ELSE IF tc > 0 THEN TIMESTAMP
        ELSE VARCHAR

(***************************************************************************)
(* Column names and document paths.  Strings are not split in TLA+, so the *)
(* two splitting loops (std::getline on '.' and on '_') are tabulated for  *)
(* the names the model uses.                                               *)
(***************************************************************************)
ColumnNameSet == {"_id", "a", "b", "a_b"}

MongoPathSet == {"_id", "a", "b", "a_b", "a.b"}

\* mongo_field_name.find('.') != npos
HasDot(path) == path \in {"a.b", "t.a", "a.b.c"}

\* std::getline(iss, segment, '.')
SplitDot(path) ==
    CASE path = "a.b" -> <<"a", "b">>
      [] path = "t.a" -> <<"t", "a">>
      [] path = "a.b.c" -> <<"a", "b", "c">>
      [] OTHER -> <<path>>

\* std::getline(iss, segment, '_')
SplitUnderscore(name) ==
    CASE name = "a_b" -> <<"a", "b">>
      [] name = "_id" -> <<"", "id">>
      [] OTHER -> <<name>>

\* The walk shared by getElementByMongoPath and getElementByPath: a
\* non-document in the middle of the path ends the lookup with no element.
RECURSIVE WalkSegments(_, _, _)
WalkSegments(cur, segs, i) ==
    LET element == Lookup(cur, segs[i])
    IN  IF ~Present(element) THEN Missing
        ELSE IF i < Len(segs)
             THEN IF element.t # "document" THEN Missing
                  ELSE WalkSegments(element.doc, segs, i + 1)
             ELSE element

getElementByMongoPath(d, mongo_path) == WalkSegments(d, SplitDot(mongo_path), 1)

getElementByPath(d, path) == WalkSegments(d, SplitUnderscore(path), 1)

\* An array view is the sequence of its elements; the empty view is <<>>.
getArrayByMongoPath(d, mongo_path) ==
    LET result == getElementByMongoPath(d, mongo_path)
    IN  IF result.t = "array" THEN result.elems ELSE <<>>

RECURSIVE ArrayWalk(_, _, _)
ArrayWalk(cur, segs, i) ==
    IF i > Len(segs) THEN <<>>
    ELSE LET element == Lookup(cur, segs[i])
         IN  IF ~Present(element) THEN <<>>
             ELSE IF element.t = "document" THEN ArrayWalk(element.doc, segs, i + 1)
             ELSE IF element.t = "array" THEN element.elems
             ELSE <<>>

getArrayByPath(d, path) == ArrayWalk(d, SplitUnderscore(path), 1)

\* The navigation loop of ValidateDocumentSchema: a non-document in the
\* middle does not end the lookup, the next segment is looked up in the
\* same document.
RECURSIVE ValidateWalk(_, _, _)
ValidateWalk(cur, segs, i) ==
    LET element == Lookup(cur, segs[i])
    IN  IF ~Present(element) THEN Missing
        ELSE IF i < Len(segs)
             THEN ValidateWalk(IF element.t = "document" THEN element.doc ELSE cur, segs, i + 1)
             ELSE element

(***************************************************************************)
(* Type compatibility (the static function FlattenDocument uses).          *)
(***************************************************************************)
NumericSources == {"int32", "int64", "double", "decimal128"}

IsBSONTypeCompatible(bson_type, expected_type) ==
    IF bson_type \in {"null", "undefined"} THEN TRUE
    ELSE CASE expected_type = "VARCHAR" -> TRUE
           [] expected_type \in {"BIGINT", "INTEGER", "SMALLINT", "TINYINT", "HUGEINT"} ->
                bson_type \in NumericSources
           [] expected_type \in {"DOUBLE", "FLOAT"} -> bson_type \in NumericSources
           [] expected_type = "BOOLEAN" -> bson_type = "bool"
           [] expected_type \in {"DATE", "TIMESTAMP", "TIMESTAMP_TZ"} -> bson_type = "date"
           [] expected_type = "BLOB" -> bson_type = "binary"
           [] expected_type = "LIST" -> bson_type = "array"
           [] expected_type \in {"STRUCT", "MAP"} -> bson_type = "document"
           [] OTHER -> TRUE

\* The document id put in the error message.
DocIdOf(d) ==
    LET id_elem == Lookup(d, "_id")
    IN  IF Present(id_elem) /\ id_elem.t \in {"oid", "string"} THEN id_elem ELSE Elem("string", 0)

SchemaViolation(d, field_name, expected_type, actual_bson_type) ==
    [doc_id |-> DocIdOf(d), field |-> field_name, expected |-> expected_type,
     found |-> actual_bson_type]

NoError == [doc_id |-> Missing, field |-> "", expected |-> "", found |-> ""]

(***************************************************************************)
(* Conversion of elements to values.                                       *)
(***************************************************************************)
\* A cast that failed: DefaultTryCastAs returns false, DefaultCastAs throws.
CastFailed == [k |-> "FAILED"]

\* Value::DefaultCastAs, as BSONArrayToList and Value::LIST use it.  NULL
\* casts to the NULL of any type.  A scalar casts to its own type, between
\* the numeric and boolean types, and to VARCHAR; the model's strings are
\* neither numerals nor list texts, so a string casts to VARCHAR alone.  No
\* scalar casts to a list type.  A list casts to a list type element by
\* element, and to VARCHAR as its text.
RECURSIVE DefaultCastAs(_, _)
DefaultCastAs(val, ty) ==
    CASE val.k = "NULL" -> NullValue
      [] val.k = "VAL" ->
            IF ty.id = "LIST" \/ ty.id = "STRUCT" THEN CastFailed
            ELSE IF val.ty = ty.id THEN val
            ELSE IF ty.id = "VARCHAR" THEN Val("VARCHAR", val.v)
            ELSE IF val.ty = "BIGINT" /\ ty.id = "DOUBLE" THEN Val("DOUBLE", val.v * 10)
            ELSE IF val.ty = "DOUBLE" /\ ty.id = "BIGINT" THEN Val("BIGINT", TruncTenths(val.v))
            ELSE IF val.ty = "BOOLEAN" /\ ty.id = "BIGINT" THEN Val("BIGINT", val.v)
            ELSE IF val.ty = "BOOLEAN" /\ ty.id = "DOUBLE" THEN Val("DOUBLE", val.v * 10)
            ELSE IF val.ty \in {"BIGINT", "DOUBLE"} /\ ty.id = "BOOLEAN"
                 THEN Val("BOOLEAN", IF val.v = 0 THEN 0 ELSE 1)
            ELSE CastFailed
      [] val.k = "LIST" ->
            IF ty.id = "VARCHAR" THEN Val("VARCHAR", [form |-> "list", of |-> val])
            ELSE IF ty.id # "LIST" THEN CastFailed
            ELSE LET cast == [i \in DOMAIN val.elems |-> DefaultCastAs(val.elems[i], ty.child)]
                 IN  IF \E i \in DOMAIN cast : cast[i] = CastFailed THEN CastFailed
                     ELSE ListVal(cast)
      [] val.k = "STRUCT" -> IF ty.id = "STRUCT" THEN val ELSE CastFailed
      [] OTHER -> CastFailed

\* DefaultTryCastAs into a slot that is left NULL when the cast fails.
CastScalar(val, ty) ==
    LET Cast(casted_val) == IF casted_val = CastFailed THEN NullValue ELSE casted_val
    IN  Cast(DefaultCastAs(val, ty))

\* Value::LIST(child_type, values): every value is cast to the child type
\* with DefaultCastAs, which throws when a cast fails.
ValueLIST(child_type, values) == DefaultCastAs(ListVal(values), ListOf(child_type))

ArrayScalarValue(e) ==
    CASE e.t = "string" -> Val("VARCHAR", e.v)
      [] e.t \in {"int32", "int64"} -> Val("BIGINT", e.v)
      [] e.t = "double" -> Val("DOUBLE", e.v)
      [] e.t = "bool" -> Val("BOOLEAN", e.v)
      [] OTHER -> NullValue

RECURSIVE GetBSONArrayDepth(_, _)
GetBSONArrayDepth(array, max_depth) ==
    IF max_depth <= 0 \/ array = <<>> THEN 0
    ELSE LET d(i) == IF array[i].t = "array"
                     THEN 1 + GetBSONArrayDepth(array[i].elems, max_depth - 1)
                     ELSE 1
         IN  CHOOSE m \in 0..11 : (\E i \in DOMAIN array : d(i) = m)
                                  /\ \A i \in DOMAIN array : d(i) <= m

GetListTypeDepth(list_type) == TypeListDepth(list_type)

\* The innermost type BSONArrayToList walks down to from the child type.
RECURSIVE BaseType(_, _)
BaseType(base_type, steps) ==
    IF steps <= 0 THEN base_type
    ELSE BaseType(IF base_type.id = "LIST" THEN base_type.child ELSE base_type, steps - 1)

\* A value inside depth_diff one-element lists.
RECURSIVE Wrapped(_, _)
Wrapped(value, depth_diff) ==
    IF depth_diff <= 0 THEN value ELSE Wrapped(ListVal(<<value>>), depth_diff - 1)

\* The branch of BSONArrayToList for an array shallower than the list type:
\* a nested array is converted as an array of scalars of the base type and
\* wrapped depth_diff times, a scalar is wrapped depth_diff times as it is.
ShallowElement(array_element, child_type, base_type, depth_diff) ==
    IF array_element.t = "null" THEN NullValue
    ELSE IF array_element.t = "array"
    THEN LET nested_array == array_element.elems
             nested_list_values ==
                 [j \in DOMAIN nested_array |->
                     IF nested_array[j].t = "null" THEN NullValue
                     ELSE CastScalar(ArrayScalarValue(nested_array[j]), base_type)]
         IN  Wrapped(ValueLIST(base_type, nested_list_values), depth_diff)
    ELSE Wrapped(ArrayScalarValue(array_element), depth_diff)

\* BSONDocumentToStruct is defined after BSONArrayToList, as in the source.
RECURSIVE BSONDocumentToStruct(_, _)
RECURSIVE BSONArrayToList(_, _)
BSONArrayToList(array, list_type) ==
    IF list_type.id # "LIST" THEN NullValue
    ELSE LET expected_depth == GetListTypeDepth(list_type)
             actual_depth == GetBSONArrayDepth(array, 10)
             child_type == list_type.child
             Made(list_value) == IF list_value = CastFailed THEN NullValue ELSE list_value
         IN  IF actual_depth < expected_depth
             THEN Made(ValueLIST(child_type,
                      [i \in DOMAIN array |->
                          ShallowElement(array[i], child_type,
                                         BaseType(child_type, expected_depth - 1),
                                         expected_depth - actual_depth)]))
             ELSE IF actual_depth > expected_depth THEN NullValue
             ELSE Made(ValueLIST(child_type,
                      [i \in DOMAIN array |->
                          IF array[i].t = "null" THEN NullValue
                          ELSE IF child_type.id = "STRUCT" /\ array[i].t = "document"
                          THEN BSONDocumentToStruct(array[i].doc, child_type)
                          ELSE IF child_type.id = "LIST" /\ array[i].t = "array"
                          THEN IF GetBSONArrayDepth(array[i].elems, 10) > GetListTypeDepth(child_type)
                               THEN NullValue
                               ELSE BSONArrayToList(array[i].elems, child_type)
                          ELSE IF child_type.id = "LIST" THEN NullValue
                          ELSE CastScalar(ArrayScalarValue(array[i]), child_type)]))

BSONElementToValue(element, target_type) ==
    IF ~Present(element) \/ element.t = "null" THEN NullValue
    ELSE CASE target_type.id = "VARCHAR" ->
                Val("VARCHAR", IF element.t \in {"string", "oid", "document", "array"}
                               THEN element ELSE Elem("string", 0))
           [] target_type.id = "BIGINT" ->
                Val("BIGINT", IF element.t \in {"int32", "int64"} THEN element.v
                              ELSE IF element.t = "double" THEN TruncTenths(element.v) ELSE 0)
           [] target_type.id = "DOUBLE" ->
                Val("DOUBLE", IF element.t = "double" THEN element.v
                              ELSE IF element.t \in {"int32", "int64"} THEN element.v * 10 ELSE 0)
           [] target_type.id = "BOOLEAN" ->
                Val("BOOLEAN", IF element.t = "bool" THEN element.v ELSE 0)
           [] target_type.id \in {"DATE", "TIMESTAMP"} ->
                Val(target_type.id, IF element.t = "date" THEN element.v ELSE 0)
           [] OTHER -> NullValue

BSONDocumentToStruct(d, struct_type) ==
    IF struct_type.id # "STRUCT" THEN NullValue
    ELSE StructVal([i \in DOMAIN struct_type.names |->
            LET field_element == Lookup(d, struct_type.names[i])
            IN  IF ~Present(field_element) \/ field_element.t = "null" THEN NullValue
                ELSE BSONElementToValue(field_element, struct_type.types[i])])

(***************************************************************************)
(* FlattenDocument.                                                        *)
(***************************************************************************)
\* The outcome of one column: the slot after it, and how the loop goes on.
ColumnOutcome(slot, st, err) == [slot |-> slot, st |-> st, err |-> err]

\* The lambda handleSchemaViolation; prev is the slot as it was.
handleSchemaViolation(d, field_name, expected_type, actual_bson_type, mode, explicit, prev) ==
    IF ~explicit THEN ColumnOutcome(prev, "continue", NoError)
    ELSE CASE mode = "FAILFAST" ->
                ColumnOutcome(prev, "throw",
                              SchemaViolation(d, field_name, expected_type, actual_bson_type))
           [] mode = "DROPMALFORMED" -> ColumnOutcome(prev, "return_false", NoError)
           [] OTHER -> ColumnOutcome(NullValue, "continue", NoError)

\* The text written into a VARCHAR slot: the form chosen by the chain of
\* type tests, and the element it renders.
VarcharText(element) ==
    CASE element.t \in {"string", "code", "codewscope", "symbol"} -> [form |-> "chars", of |-> element]
      [] element.t = "oid" -> [form |-> "hex", of |-> element]
      [] element.t \in {"document", "array"} -> [form |-> "json", of |-> element]
      [] element.t \in {"int32", "int64", "double", "date", "decimal128", "timestamp"} ->
            [form |-> "number", of |-> element]
      [] element.t = "bool" -> [form |-> "bool", of |-> element]
      [] element.t = "binary" -> [form |-> "<binary data>", of |-> Missing]
      [] element.t = "undefined" -> [form |-> "undefined", of |-> Missing]
      [] element.t = "regex" -> [form |-> "regex", of |-> element]
      [] element.t = "dbpointer" -> [form |-> "<dbpointer>", of |-> Missing]
      [] OTHER -> [form |-> "<unknown type>", of |-> Missing]

\* The scalar element located for a column (lines 1534-1567).
ScalarElement(d, column_name, pm) ==
    LET mongo_field_name == IF column_name \in DOMAIN pm THEN pm[column_name] ELSE column_name
    IN  IF HasDot(mongo_field_name) THEN getElementByMongoPath(d, mongo_field_name)
        ELSE IF Present(Lookup(d, mongo_field_name)) THEN Lookup(d, mongo_field_name)
        ELSE getElementByPath(d, column_name)

\* The array view located for a LIST column (lines 1445-1460).
ListArrayView(d, column_name, pm) ==
    LET element == Lookup(d, column_name)
    IN  IF element.t = "array" THEN element.elems
        ELSE IF column_name \in DOMAIN pm THEN getArrayByMongoPath(d, pm[column_name])
        ELSE getArrayByPath(d, column_name)

\* The element located for a STRUCT column (lines 1494-1518).
StructElement(d, column_name, pm) ==
    LET element == Lookup(d, column_name)
    IN  IF element.t = "document" THEN element
        ELSE IF column_name \in DOMAIN pm THEN getElementByMongoPath(d, pm[column_name])
        ELSE Missing

FlattenChecked(d, column_name, type_name, element, mode, explicit, prev, value) ==
    IF ~IsBSONTypeCompatible(element.t, type_name)
    THEN handleSchemaViolation(d, column_name, type_name, element.t, mode, explicit, prev)
    ELSE ColumnOutcome(value, "continue", NoError)

\* One iteration of the column loop of FlattenDocument.
FlattenColumn(d, column_name, column_type, pm, mode, explicit, prev) ==
    IF column_type.id = "LIST"
    THEN LET array_view == ListArrayView(d, column_name, pm)
         IN  IF array_view = <<>>
             THEN ColumnOutcome(ListVal(<<>>), "continue", NoError)
             ELSE ColumnOutcome(BSONArrayToList(array_view, column_type), "continue", NoError)
    ELSE IF column_type.id = "STRUCT"
    THEN LET element == StructElement(d, column_name, pm)
         IN  IF element.t = "document"
             THEN ColumnOutcome(BSONDocumentToStruct(element.doc, column_type), "continue", NoError)
             ELSE ColumnOutcome(NullValue, "continue", NoError)
    ELSE LET element == ScalarElement(d, column_name, pm)
             id == column_type.id
         IN  IF ~Present(element) \/ element.t = "null"
             THEN ColumnOutcome(NullValue, "continue", NoError)
             ELSE CASE id = "VARCHAR" ->
                         ColumnOutcome(Val("VARCHAR", VarcharText(element)), "continue", NoError)
                    [] id = "BIGINT" ->
                         FlattenChecked(d, column_name, id, element, mode, explicit, prev,
                            Val(id, IF element.t \in {"int32", "int64"} THEN element.v
                                    ELSE IF element.t = "double" THEN TruncTenths(element.v)
                                    ELSE 0))
                    [] id = "HUGEINT" ->
                         FlattenChecked(d, column_name, id, element, mode, explicit, prev,
                            Val(id, IF element.t \in {"int32", "int64"} THEN element.v
                                    ELSE IF element.t \in {"double", "decimal128"}
                                         THEN TruncTenths(element.v)
                                    ELSE 0))
                    [] id = "DOUBLE" ->
                         FlattenChecked(d, column_name, id, element, mode, explicit, prev,
                            Val(id, IF element.t \in {"double", "decimal128"} THEN element.v
                                    ELSE IF element.t \in {"int32", "int64"} THEN element.v * 10
                                    ELSE 0))
                    [] id = "BOOLEAN" ->
                         FlattenChecked(d, column_name, id, element, mode, explicit, prev,
                            Val(id, IF element.t = "bool" THEN element.v ELSE 0))
                    [] id \in {"DATE", "TIMESTAMP"} ->
                         FlattenChecked(d, column_name, id, element, mode, explicit, prev,
                            Val(id, IF element.t = "date" THEN element.v ELSE 0))
                    [] OTHER -> ColumnOutcome(NullValue, "continue", NoError)

\* The column loop: out is the row of the output chunk, one slot a column.
\* ret is "true", "false" (DROPMALFORMED: skip the row) or "throw".
RECURSIVE FlattenFrom(_, _, _, _, _, _, _, _)
FlattenFrom(d, names, types, pm, mode, explicit, out, col_idx) ==
    IF col_idx > Len(names) THEN [out |-> out, ret |-> "true", err |-> NoError]
    ELSE LET r == FlattenColumn(d, names[col_idx], types[col_idx], pm, mode, explicit, out[col_idx])
             out2 == [out EXCEPT ![col_idx] = r.slot]
         IN  CASE r.st = "throw" -> [out |-> out2, ret |-> "throw", err |-> r.err]
               [] r.st = "return_false" -> [out |-> out2, ret |-> "false", err |-> NoError]
               [] OTHER -> FlattenFrom(d, names, types, pm, mode, explicit, out2, col_idx + 1)

FlattenDocument(d, names, types, out, pm, mode, explicit) ==
    FlattenFrom(d, names, types, pm, mode, explicit, out, 1)

(***************************************************************************)
(* ValidateDocumentSchema.                                                 *)
(***************************************************************************)
ValidateElement(d, column_name, pm) ==
    LET mongo_field_name == IF column_name \in DOMAIN pm THEN pm[column_name] ELSE column_name
    IN  IF HasDot(mongo_field_name) THEN ValidateWalk(d, SplitDot(mongo_field_name), 1)
        ELSE Lookup(d, mongo_field_name)

RECURSIVE ValidateFrom(_, _, _, _, _, _)
ValidateFrom(d, names, types, pm, mode, col_idx) ==
    IF col_idx > Len(names) THEN [ret |-> "true", err |-> NoError]
    ELSE LET element == ValidateElement(d, names[col_idx], pm)
             ty == types[col_idx]
         IN  IF ty.id \in {"LIST", "STRUCT"}
             THEN ValidateFrom(d, names, types, pm, mode, col_idx + 1)
             ELSE IF ~Present(element) \/ element.t \in {"null", "undefined"}
             THEN ValidateFrom(d, names, types, pm, mode, col_idx + 1)
             ELSE IF ~IsBSONTypeCompatible(element.t, ty.id)
             THEN IF mode = "FAILFAST"
                  THEN [ret |-> "throw",
                        err |-> SchemaViolation(d, names[col_idx], ty.id, element.t)]
                  ELSE [ret |-> "false", err |-> NoError]
             ELSE ValidateFrom(d, names, types, pm, mode, col_idx + 1)

ValidateDocumentSchema(d, names, types, pm, mode) == ValidateFrom(d, names, types, pm, mode, 1)

(***************************************************************************)
(* Schema resolution: sample inference and the explicit columns parameter. *)
(***************************************************************************)
\* The order in which the fields of a document are visited.
KeyOrder == <<"_id", "a", "b", "a_b">>

KeysOf(d) == SelectSeq(KeyOrder, LAMBDA key : key \in DOMAIN d)

\* The type recorded for an array field; the arrays of the model hold
\* scalars, so the first element is a primitive.
ArrayFieldType(array) ==
    IF array = <<>> THEN VARCHAR ELSE ListOf(InferTypeFromBSONElement(array[1]))

AppendType(field_types, full_path, ty) ==
    IF full_path \in DOMAIN field_types
    THEN [field_types EXCEPT ![full_path] = Append(@, ty)]
    ELSE field_types @@ (full_path :> <<ty>>)

SetPath(paths, full_path, mongo_path) ==
    IF full_path \in DOMAIN paths
    THEN [paths EXCEPT ![full_path] = mongo_path]
    ELSE paths @@ (full_path :> mongo_path)

MAX_DEPTH == 5

\* acc is [field_types, paths]: the two maps CollectFieldPaths fills.
RECURSIVE CollectFieldPaths(_, _, _, _, _, _)
CollectFieldPaths(d, keys, prefix, depth, acc, mongo_prefix) ==
    IF depth > MAX_DEPTH
    THEN IF prefix # "" THEN [acc EXCEPT !.field_types = AppendType(@, prefix, VARCHAR)] ELSE acc
    ELSE IF keys = <<>> THEN acc
    ELSE LET field_name == Head(keys)
             element == d[field_name]
             full_path == IF prefix = "" THEN field_name ELSE prefix \o "_" \o field_name
             mongo_path == IF mongo_prefix = "" THEN field_name
                           ELSE mongo_prefix \o "." \o field_name
             paths2 == SetPath(acc.paths, full_path, mongo_path)
             acc2 == CASE element.t = "document" ->
                            CollectFieldPaths(element.doc, KeysOf(element.doc), full_path, depth + 1,
                                              [acc EXCEPT !.paths = paths2], mongo_path)
                       [] element.t = "array" ->
                            [field_types |-> AppendType(acc.field_types, full_path,
                                                        ArrayFieldType(element.elems)),
                             paths |-> paths2]
                       [] OTHER ->
                            [field_types |-> AppendType(acc.field_types, full_path,
                                                        InferTypeFromBSONElement(element)),
                             paths |-> paths2]
         IN  CollectFieldPaths(d, Tail(keys), prefix, depth, acc2, mongo_prefix)

RECURSIVE CollectSample(_, _)
CollectSample(docs, acc) ==
    IF docs = <<>> THEN acc
    ELSE CollectSample(Tail(docs),
                       CollectFieldPaths(Head(docs), KeysOf(Head(docs)), "", 0, acc, ""))

Schema(names, types, paths) ==
    [column_names |-> names, column_types |-> types, column_name_to_mongo_path |-> paths]

\* The iteration order of the unordered map of field types is not specified
\* by the language; the model lists the columns after _id in one order.
FieldOrder == <<"a", "b", "a_b">>

InferSchemaFromDocuments(sample) ==
    LET collected == CollectSample(sample, [field_types |-> [x \in {} |-> <<>>],
                                            paths |-> [x \in {} |-> ""]])
        field_types == IF "_id" \in DOMAIN collected.field_types THEN collected.field_types
                       ELSE collected.field_types @@ ("_id" :> <<VARCHAR>>)
        paths == IF "_id" \in DOMAIN collected.field_types THEN collected.paths
                 ELSE SetPath(collected.paths, "_id", "_id")
        others == SelectSeq(FieldOrder, LAMBDA f : f \in DOMAIN field_types)
        names == <<"_id">> \o others
    IN  Schema(names, [i \in DOMAIN names |-> ResolveTypeConflict(field_types[names[i]])], paths)

\* A child of the columns struct after its type string was parsed:
\* [name, type, path], path = name in the simple form.
ColumnSpec(name, type, path) == [name |-> name, type |-> type, path |-> path]

ParseSchemaFromColumnsParameter(cols) ==
    LET names == [i \in DOMAIN cols |-> cols[i].name]
        types == [i \in DOMAIN cols |-> cols[i].type]
        paths == [n \in {cols[i].name : i \in DOMAIN cols} |->
                     cols[CHOOSE i \in DOMAIN cols :
                            cols[i].name = n /\ \A j \in DOMAIN cols : cols[j].name = n => j <= i].path]
        has_id == \E i \in DOMAIN cols : cols[i].name = "_id"
    IN  IF has_id THEN Schema(names, types, paths)
        ELSE Schema(Append(names, "_id"), Append(types, VARCHAR), paths @@ ("_id" :> "_id"))

(***************************************************************************)
(* The documents and schemas the materialization is checked on.            *)
(***************************************************************************)
IdElems == {Elem("oid", 1), Elem("int32", 9)}

AElems == {Missing, Elem("int32", 7), Elem("string", 1), Elem("double", 25),
           Elem("decimal128", 15), Elem("null", 0), ArrayElem(<<>>),
           ArrayElem(<<Elem("int32", 1)>>),
           DocElem("b" :> Elem("int32", 3)), DocElem("b" :> Elem("string", 2))}

BElems == {Missing, Elem("string", 3), Elem("bool", 1), Elem("date", 0), Elem("binary", 1)}

ABElems == {Missing, Elem("int32", 5)}

MakeDoc(id, a, b, ab) ==
    LET all == [key \in {"_id", "a", "b", "a_b"} |->
                   CASE key = "_id" -> id [] key = "a" -> a [] key = "b" -> b [] OTHER -> ab]
    IN  [key \in {k \in DOMAIN all : Present(all[k])} |-> all[key]]

Documents == {MakeDoc(id, a, b, ab) : id \in IdElems, a \in AElems, b \in BElems, ab \in ABElems}

\* The documents a sample is drawn from.
SampleDocuments ==
    {MakeDoc(Elem("oid", 1), a, b, Missing) :
        a \in {Elem("int32", 7), Elem("string", 1), ArrayElem(<<Elem("int32", 1)>>),
               DocElem("b" :> Elem("int32", 3))},
        b \in {Missing, Elem("bool", 1)}}

Samples == UNION {[1..n -> SampleDocuments] : n \in 0..MaxSample}

ColumnSpecs ==
    {ColumnSpec("a", BIGINT, "a"), ColumnSpec("a", VARCHAR, "a"), ColumnSpec("a", DOUBLE, "a"),
     ColumnSpec("a", ListOf(BIGINT), "a"), ColumnSpec("a", StructOf(<<"b">>, <<BIGINT>>), "a"),
     ColumnSpec("a_b", BIGINT, "a.b"), ColumnSpec("a_b", BIGINT, "a_b"),
     ColumnSpec("b", SQLBOOLEAN, "b"), ColumnSpec("b", BLOB, "b"), ColumnSpec("b", TIMESTAMP, "b"),
     ColumnSpec("_id", VARCHAR, "_id")}

MaxColumns == 2

ExplicitColumns ==
    {cols \in UNION {[1..n -> ColumnSpecs] : n \in 1..MaxColumns} :
        \A i, j \in DOMAIN cols : cols[i].name = cols[j].name => i = j}

SchemaModes == {"PERMISSIVE", "DROPMALFORMED", "FAILFAST"}


(***************************************************************************)
(* The JSON text of a document or an array in a VARCHAR column.  A text is *)
(* a sequence of characters, a character a string of length one.           *)
(***************************************************************************)
Quote == "\""

Digits == <<"0", "1", "2", "3", "4", "5", "6", "7", "8", "9">>

IsDigit(c) == \E i \in DOMAIN Digits : Digits[i] = c

RECURSIVE DigitsOf(_)
DigitsOf(n) == IF n < 10 THEN <<Digits[n + 1]>> ELSE DigitsOf(n \div 10) \o <<Digits[(n % 10) + 1]>>

\* std::to_string of an integer.
IntegerChars(v) == IF v < 0 THEN <<"-">> \o DigitsOf(-v) ELSE DigitsOf(v)

\* The characters of the model's strings and field names.
StringChars(v) ==
    CASE v = 1 -> <<"x">>
      [] v = 2 -> <<"a", " ", "b">>
      [] v = 3 -> <<"[", " ", "\\", Quote, " ", "]">>
      [] OTHER -> <<"s">>

KeyChars(key) ==
    CASE key = "_id" -> <<"_", "i", "d">>
      [] key = "a_b" -> <<"a", "_", "b">>
      [] OTHER -> <<key>>

Quoted(chars) == <<Quote>> \o chars \o <<Quote>>

RECURSIVE JoinChars(_, _)
JoinChars(texts, separator) ==
    IF texts = <<>> THEN <<>>
    ELSE IF Len(texts) = 1 THEN texts[1]
    ELSE texts[1] \o separator \o JoinChars(SubSeq(texts, 2, Len(texts)), separator)

\* An extended-JSON wrapper { "$name" : value }.
Extended(name, value) ==
    <<"{", " ">> \o Quoted(<<"$">> \o name) \o <<" ", ":", " ">> \o value \o <<" ", "}">>

\* bsoncxx::to_json of a value: the driver writes a space after an opening
\* bracket, before a closing one, after a comma and on both sides of a
\* colon; an empty array is [ ] and an empty document is { }.
RECURSIVE ElementToJson(_)
ElementToJson(element) ==
    CASE element.t \in {"int32", "int64"} -> IntegerChars(element.v)
      [] element.t = "double" ->
            IntegerChars(TruncTenths(element.v)) \o <<".">>
            \o DigitsOf((IF element.v < 0 THEN -element.v ELSE element.v) % 10)
      [] element.t = "string" -> Quoted(StringChars(element.v))
      [] element.t = "bool" ->
            IF element.v = 1 THEN <<"t", "r", "u", "e">> ELSE <<"f", "a", "l", "s", "e">>
      [] element.t = "null" -> <<"n", "u", "l", "l">>
      [] element.t = "oid" -> Extended(<<"o", "i", "d">>, Quoted(DigitsOf(element.v)))
      [] element.t = "date" -> Extended(<<"d", "a", "t", "e">>, IntegerChars(element.v))
      [] element.t = "array" ->
            IF element.elems = <<>> THEN <<"[", " ", "]">>
            ELSE <<"[", " ">>
                 \o JoinChars([i \in DOMAIN element.elems |-> ElementToJson(element.elems[i])],
                              <<",", " ">>)
                 \o <<" ", "]">>
      [] element.t = "document" ->
            IF KeysOf(element.doc) = <<>> THEN <<"{", " ", "}">>
            ELSE <<"{", " ">>
                 \o JoinChars([i \in DOMAIN KeysOf(element.doc) |->
                                  Quoted(KeyChars(KeysOf(element.doc)[i])) \o <<" ", ":", " ">>
                                  \o ElementToJson(element.doc[KeysOf(element.doc)[i]])],
                              <<",", " ">>)
                 \o <<" ", "}">>
      [] OTHER -> Extended(<<element.t>>, Quoted(<<"0">>))

\* The loop of NormalizeJson from character i on.
RECURSIVE NormalizeFrom(_, _, _, _, _)
NormalizeFrom(json, i, in_string, escape_next, normalized) ==
    IF i > Len(json) THEN normalized
    ELSE LET c == json[i]
         IN  IF escape_next THEN NormalizeFrom(json, i + 1, in_string, FALSE, Append(normalized, c))
             ELSE IF c = "\\" THEN NormalizeFrom(json, i + 1, in_string, TRUE, Append(normalized, c))
             ELSE IF c = Quote THEN NormalizeFrom(json, i + 1, ~in_string, FALSE, Append(normalized, c))
             ELSE IF in_string THEN NormalizeFrom(json, i + 1, in_string, FALSE, Append(normalized, c))
             ELSE IF /\ c = " "
                     /\ i > 1
                     /\ i < Len(json)
                     /\ \/ /\ json[i - 1] \in {"[", ","}
                           /\ \/ json[i + 1] \in {Quote, "[", "{", "-", "t", "f", "n"}
                              \/ IsDigit(json[i + 1])
                        \/ /\ json[i + 1] \in {"]", "}"}
                           /\ \/ json[i - 1] \in {Quote, "]", "}"}
                              \/ IsDigit(json[i - 1])
                  THEN NormalizeFrom(json, i + 1, in_string, FALSE, normalized)
             ELSE NormalizeFrom(json, i + 1, in_string, FALSE, Append(normalized, c))

NormalizeJson(json) == NormalizeFrom(json, 1, FALSE, FALSE, <<>>)

\* The characters written for a VARCHAR slot whose form is json.
JsonText(element) == NormalizeJson(ElementToJson(element))
(***************************************************************************)
(* Query documents.  A bsoncxx document under construction is the sequence *)
(* of its key/value pairs: the order of the pairs and repeated keys are    *)
(* kept.  A document used as a value is QDoc(pairs); an array value is     *)
(* ArrayElem(items).                                                       *)
(***************************************************************************)
kvp(key, value) == <<key, value>>

QDoc(kvs) == [t |-> "document", kvs |-> kvs]

\* Appending, one after another, everything a loop collects.
RECURSIVE ConcatAll(_)
ConcatAll(seqs) == IF seqs = <<>> THEN <<>> ELSE Head(seqs) \o ConcatAll(Tail(seqs))

\* The strings of the model that are 24 hexadecimal characters.
ObjectIdHexStrings == {"0123456789abcdef01234567"}

IsValidObjectIdHex(str) == str \in ObjectIdHexStrings

\* "_id", a name ending in "._id", or a name ending in "_id", over the
\* column names and paths of the model.
IsObjectIdColumn(column_name) == column_name \in {"_id", "a._id", "ref_id"}

\* The switch on the type shared by AppendValueToDocument and
\* AppendValueToArray: the BSON value appended for a constant.  A DATE
\* constant counts days, a TIMESTAMP constant microseconds, a BSON date
\* milliseconds.
BSONOfValue(value, type, oid_column) ==
    IF value = NullValue THEN Elem("null", 0)
    ELSE CASE type.id = "VARCHAR" ->
                IF oid_column /\ IsValidObjectIdHex(value.v) THEN Elem("oid", value.v)
                ELSE Elem("string", value.v)
           [] type.id = "BIGINT" -> Elem("int64", value.v)
           [] type.id = "INTEGER" -> Elem("int32", value.v)
           [] type.id = "DOUBLE" -> Elem("double", value.v)
           [] type.id = "BOOLEAN" -> Elem("bool", value.v)
           [] type.id = "DATE" -> Elem("date", value.v * 86400000)
           [] type.id = "TIMESTAMP" -> Elem("date", value.v \div 1000)
           [] OTHER -> Elem("string", value.v)

AppendValueToArray(array_builder, value, type, column_name) ==
    Append(array_builder, BSONOfValue(value, type, IsObjectIdColumn(column_name)))

AppendValueToDocument(doc_builder, key, value, type, column_name) ==
    LET col_for_oid_check == IF column_name = "" THEN key ELSE column_name
    IN  Append(doc_builder, kvp(key, BSONOfValue(value, type, IsObjectIdColumn(col_for_oid_check))))

(***************************************************************************)
(* Table filters.                                                          *)
(***************************************************************************)
ConstantFilter(comparison_type, constant) ==
    [filter_type |-> "CONSTANT_COMPARISON", comparison_type |-> comparison_type,
     constant |-> constant]

InFilter(values) == [filter_type |-> "IN_FILTER", values |-> values]

IsNullFilter == [filter_type |-> "IS_NULL"]

IsNotNullFilter == [filter_type |-> "IS_NOT_NULL"]

ConjunctionAndFilter(child_filters) ==
    [filter_type |-> "CONJUNCTION_AND", child_filters |-> child_filters]

ConjunctionOrFilter(child_filters) ==
    [filter_type |-> "CONJUNCTION_OR", child_filters |-> child_filters]

StructFilter(child_name, child_filter) ==
    [filter_type |-> "STRUCT_EXTRACT", child_name |-> child_name, child_filter |-> child_filter]

OptionalFilter(child_filter) == [filter_type |-> "OPTIONAL_FILTER", child_filter |-> child_filter]

\* filter_data->initialized, and the filter it holds once it is.
DynamicFilter(initialized, filter) ==
    [filter_type |-> "DYNAMIC_FILTER", initialized |-> initialized, filter |-> filter]

\* The inner switch on the comparison type: the operator key.
MongoOp(comparison_type) ==
    CASE comparison_type = "COMPARE_NOTEQUAL" -> "$ne"
      [] comparison_type = "COMPARE_LESSTHAN" -> "$lt"
      [] comparison_type = "COMPARE_LESSTHANOREQUALTO" -> "$lte"
      [] comparison_type = "COMPARE_GREATERTHAN" -> "$gt"
      [] comparison_type = "COMPARE_GREATERTHANOREQUALTO" -> "$gte"
      [] OTHER -> ""

SupportedComparisons ==
    {"COMPARE_EQUAL", "COMPARE_NOTEQUAL", "COMPARE_LESSTHAN", "COMPARE_LESSTHANOREQUALTO",
     "COMPARE_GREATERTHAN", "COMPARE_GREATERTHANOREQUALTO"}

\* The merge loop of the CONJUNCTION_AND case over one child document: the
\* pairs of a nested document under the column's key are appended one by
\* one, any other pair is appended as it is.
MergeChildDoc(child_doc, column_name) ==
    ConcatAll([j \in DOMAIN child_doc |->
        IF child_doc[j][1] = column_name /\ child_doc[j][2].t = "document"
        THEN child_doc[j][2].kvs
        ELSE <<child_doc[j]>>])

IsEqualityFilter(filter) ==
    filter.filter_type = "CONSTANT_COMPARISON" /\ filter.comparison_type = "COMPARE_EQUAL"

\* ConvertSingleFilterToMongo of the filter pushdown module.
RECURSIVE ConvertSingleFilterToMongo(_, _, _)
ConvertSingleFilterToMongo(filter, column_name, column_type) ==
    CASE filter.filter_type = "CONSTANT_COMPARISON" ->
            IF filter.comparison_type = "COMPARE_EQUAL"
            THEN AppendValueToDocument(<<>>, column_name, filter.constant, column_type, column_name)
            ELSE IF filter.comparison_type \in SupportedComparisons
            THEN <<kvp(column_name,
                       QDoc(AppendValueToDocument(<<>>, MongoOp(filter.comparison_type),
                                                  filter.constant, column_type, column_name)))>>
            ELSE <<>>
      [] filter.filter_type = "IN_FILTER" ->
            IF filter.values = <<>> THEN <<>>
            ELSE LET in_array == ConcatAll([i \in DOMAIN filter.values |->
                                     AppendValueToArray(<<>>, filter.values[i], column_type,
                                                        column_name)])
                 IN  <<kvp(column_name, QDoc(<<kvp("$in", ArrayElem(in_array))>>))>>
      [] filter.filter_type = "IS_NULL" -> <<kvp(column_name, Elem("null", 0))>>
      [] filter.filter_type = "IS_NOT_NULL" ->
            <<kvp(column_name, QDoc(<<kvp("$ne", Elem("null", 0))>>))>>
      [] filter.filter_type = "CONJUNCTION_AND" ->
            LET merged_doc == ConcatAll([i \in DOMAIN filter.child_filters |->
                                  MergeChildDoc(ConvertSingleFilterToMongo(filter.child_filters[i],
                                                                           column_name, column_type),
                                                column_name)])
            IN  <<kvp(column_name, QDoc(merged_doc))>>
      [] filter.filter_type = "CONJUNCTION_OR" ->
            LET or_array == ConcatAll([i \in DOMAIN filter.child_filters |->
                    LET child_filter == filter.child_filters[i]
                    IN  IF IsEqualityFilter(child_filter)
                        THEN <<QDoc(AppendValueToDocument(<<>>, column_name, child_filter.constant,
                                                          column_type, column_name))>>
                        ELSE LET child_doc == ConvertSingleFilterToMongo(child_filter, column_name,
                                                                         column_type)
                             IN  IF child_doc # <<>> THEN <<QDoc(child_doc)>> ELSE <<>>])
            IN  IF or_array # <<>> THEN <<kvp("$or", ArrayElem(or_array))>> ELSE <<>>
      [] filter.filter_type = "STRUCT_EXTRACT" ->
            ConvertSingleFilterToMongo(filter.child_filter, column_name \o "." \o filter.child_name,
                                       column_type)
      [] filter.filter_type = "OPTIONAL_FILTER" ->
            ConvertSingleFilterToMongo(filter.child_filter, column_name, column_type)
      [] filter.filter_type = "DYNAMIC_FILTER" ->
            IF ~filter.initialized THEN <<>>
            ELSE ConvertSingleFilterToMongo(filter.filter, column_name, column_type)
      [] OTHER -> <<>>

\* key().front() == '$', over the keys the translation writes.
IsDollarKey(key) ==
    key \in {"$or", "$and", "$expr", "$in", "$ne", "$lt", "$lte", "$gt", "$gte", "$elemMatch"}

\* The ascending sequence of a finite set of numbers: the iteration order
\* of the filter map.
RECURSIVE SortedSeq(_)
SortedSeq(S) ==
    IF S = {} THEN <<>>
    ELSE LET m == CHOOSE x \in S : \A y \in S : x <= y
         IN  <<m>> \o SortedSeq(S \ {m})

\* The per-path accumulators and the top-level filters after the filters
\* at the indexes idxs (in this order) have been processed.  acc is
\* [column_filters, paths, global_filters]: paths lists the keys of
\* column_filters in the order of their insertion.
RECURSIVE ProcessFilters(_, _, _, _, _, _)
ProcessFilters(filters, idxs, names, types, pm, acc) ==
    IF idxs = <<>> THEN acc
    ELSE LET col_idx == Head(idxs)
             rest == Tail(idxs)
             \* the body of the loop once the filter has been translated
             Accumulate(mongo_column_name, filter_doc) ==
                 LET merged == ConcatAll([j \in DOMAIN filter_doc |->
                                   IF filter_doc[j][1] = mongo_column_name
                                      /\ filter_doc[j][2].t = "document"
                                   THEN filter_doc[j][2].kvs
                                   ELSE <<filter_doc[j]>>])
                 IN  IF filter_doc = <<>> THEN acc
                     ELSE IF IsDollarKey(filter_doc[1][1])
                     THEN [acc EXCEPT !.global_filters = Append(@, filter_doc)]
                     ELSE IF mongo_column_name \notin DOMAIN acc.column_filters
                     THEN [acc EXCEPT
                             !.column_filters = @ @@ (mongo_column_name :> filter_doc),
                             !.paths = Append(@, mongo_column_name)]
                     ELSE [acc EXCEPT !.column_filters[mongo_column_name] = @ \o merged]
             Translate(column_name, mongo_column_name) ==
                 Accumulate(mongo_column_name,
                            ConvertSingleFilterToMongo(filters[col_idx], mongo_column_name,
                                                       types[col_idx]))
         IN  IF col_idx > Len(names) THEN ProcessFilters(filters, rest, names, types, pm, acc)
             ELSE ProcessFilters(filters, rest, names, types, pm,
                                 Translate(names[col_idx],
                                           IF names[col_idx] \in DOMAIN pm THEN pm[names[col_idx]]
                                           ELSE names[col_idx]))

\* The conjunct a path's accumulator gives: the accumulator itself when it
\* is the single pair under the path's own key, else the accumulator
\* wrapped under the path.
ColumnConjunct(path, col_doc) ==
    IF col_doc # <<>> /\ col_doc[1][1] = path /\ Len(col_doc) = 1 THEN <<col_doc[1]>>
    ELSE <<kvp(path, QDoc(col_doc))>>

\* ConvertFiltersToMongoQuery of the filter pushdown module.  filters is
\* the filter map (column index -> filter); the empty map stands for a
\* null or empty filter set.  The iteration order of the unordered map of
\* accumulators is not specified; the model takes the order of insertion.
ConvertFiltersToMongoQuery(filters, names, types, pm) ==
    LET Combine(conjuncts) ==
            IF conjuncts = <<>> THEN <<>>
            ELSE IF Len(conjuncts) = 1 THEN conjuncts[1]
            ELSE <<kvp("$and", ArrayElem([i \in DOMAIN conjuncts |-> QDoc(conjuncts[i])]))>>
        Conjuncts(acc) ==
            [i \in DOMAIN acc.paths |->
                ColumnConjunct(acc.paths[i], acc.column_filters[acc.paths[i]])]
            \o acc.global_filters
    IN  IF DOMAIN filters = {} THEN <<>>
        ELSE Combine(Conjuncts(ProcessFilters(filters, SortedSeq(DOMAIN filters), names, types,
                                              pm,
                                              [column_filters |-> [x \in {} |-> <<>>],
                                               paths |-> <<>>, global_filters |-> <<>>])))

(***************************************************************************)
(* The copy of the single-filter translation kept in the table function's  *)
(* file: constants are appended with no ObjectId conversion, a conjunction *)
(* merges only nested operator documents, and a disjunction of equalities  *)
(* is folded into $in.                                                     *)
(***************************************************************************)
TableFunctionAppendValue(doc_builder, key, value, type) ==
    Append(doc_builder, kvp(key, BSONOfValue(value, type, FALSE)))

RECURSIVE TableFunctionConvertSingleFilterToMongo(_, _, _)
TableFunctionConvertSingleFilterToMongo(filter, column_name, column_type) ==
    CASE filter.filter_type = "CONSTANT_COMPARISON" ->
            IF filter.comparison_type = "COMPARE_EQUAL"
            THEN TableFunctionAppendValue(<<>>, column_name, filter.constant, column_type)
            ELSE IF filter.comparison_type \in SupportedComparisons
            THEN <<kvp(column_name,
                       QDoc(TableFunctionAppendValue(<<>>, MongoOp(filter.comparison_type),
                                                     filter.constant, column_type)))>>
            ELSE <<>>
      [] filter.filter_type = "IN_FILTER" ->
            IF filter.values = <<>> THEN <<>>
            ELSE <<kvp(column_name,
                       QDoc(<<kvp("$in", ArrayElem([i \in DOMAIN filter.values |->
                                   BSONOfValue(filter.values[i], column_type, FALSE)]))>>))>>
      [] filter.filter_type = "IS_NULL" -> <<kvp(column_name, Elem("null", 0))>>
      [] filter.filter_type = "IS_NOT_NULL" ->
            <<kvp(column_name, QDoc(<<kvp("$ne", Elem("null", 0))>>))>>
      [] filter.filter_type = "CONJUNCTION_AND" ->
            LET merged_doc == ConcatAll([i \in DOMAIN filter.child_filters |->
                    LET child_doc == TableFunctionConvertSingleFilterToMongo(
                                         filter.child_filters[i], column_name, column_type)
                    IN  ConcatAll([j \in DOMAIN child_doc |->
                            IF child_doc[j][1] = column_name /\ child_doc[j][2].t = "document"
                            THEN child_doc[j][2].kvs
                            ELSE <<>>])])
            IN  <<kvp(column_name, QDoc(merged_doc))>>
      [] filter.filter_type = "CONJUNCTION_OR" ->
            LET children == filter.child_filters
                all_equality == \A i \in DOMAIN children : IsEqualityFilter(children[i])
                or_array == ConcatAll([i \in DOMAIN children |->
                    LET child_doc == TableFunctionConvertSingleFilterToMongo(children[i],
                                                                             column_name, column_type)
                    IN  IF child_doc # <<>> THEN <<QDoc(child_doc)>> ELSE <<>>])
            IN  IF all_equality /\ Len(children) > 1
                THEN <<kvp(column_name,
                           QDoc(<<kvp("$in", ArrayElem([i \in DOMAIN children |->
                                       BSONOfValue(children[i].constant, column_type, FALSE)]))>>))>>
                ELSE IF or_array # <<>> THEN <<kvp("$or", ArrayElem(or_array))>> ELSE <<>>
      [] OTHER -> <<>>

(***************************************************************************)
(* JSON texts.  A JSON text is kept as [json |-> tree], the tree it        *)
(* denotes; EmptyString is the empty std::string.  to_json writes relaxed  *)
(* extended JSON: an int32 or int64 becomes a bare number, every other     *)
(* type keeps its tag.  bsoncxx::from_json reads a bare integer as int32   *)
(* when it fits in 32 bits and as int64 otherwise.                         *)
(***************************************************************************)
EmptyString == [empty |-> TRUE]

JsonNumber(v) == [t |-> "number", v |-> v]

RECURSIVE JsonOfValue(_)
JsonOfValue(x) ==
    CASE x.t \in {"int32", "int64"} -> JsonNumber(x.v)
      [] x.t = "document" -> QDoc([j \in DOMAIN x.kvs |-> kvp(x.kvs[j][1], JsonOfValue(x.kvs[j][2]))])
      [] x.t = "array" -> ArrayElem([i \in DOMAIN x.elems |-> JsonOfValue(x.elems[i])])
      [] OTHER -> x

RECURSIVE ValueOfJson(_)
ValueOfJson(x) ==
    CASE x.t = "number" ->
            IF x.v >= -2147483647 - 1 /\ x.v <= 2147483647 THEN Elem("int32", x.v)
            ELSE Elem("int64", x.v)
      [] x.t = "document" -> QDoc([j \in DOMAIN x.kvs |-> kvp(x.kvs[j][1], ValueOfJson(x.kvs[j][2]))])
      [] x.t = "array" -> ArrayElem([i \in DOMAIN x.elems |-> ValueOfJson(x.elems[i])])
      [] OTHER -> x

to_json(view) == [json |-> JsonOfValue(QDoc(view)).kvs]

from_json(text) == ValueOfJson(QDoc(text.json)).kvs

(***************************************************************************)
(* The database's evaluation of a find filter (collection.find), over the  *)
(* filters the scan sends: field predicates, $or and $and.  Other          *)
(* top-level operators are not sent by the scan and are not evaluated.     *)
(***************************************************************************)
NumberTypes == {"int32", "int64", "double", "decimal128"}

TypeBracket(e) == IF e.t \in NumberTypes THEN "number" ELSE e.t

\* The numeric payload in tenths (a double payload counts tenths).
Tenths(e) == IF e.t \in {"double", "decimal128"} THEN e.v ELSE e.v * 10

\* The element at a dotted path of a document.
FieldAt(d, path) == WalkSegments(d, SplitDot(path), 1)

\* Equality of a stored element with a query value.  A stored document is
\* a function from its keys, a query document a sequence of pairs.
RECURSIVE ScalarEquals(_, _)
ScalarEquals(e, v) ==
    /\ TypeBracket(e) = TypeBracket(v)
    /\ CASE TypeBracket(v) = "number" -> Tenths(e) = Tenths(v)
         [] TypeBracket(v) = "document" ->
               /\ Len(v.kvs) = Cardinality(DOMAIN e.doc)
               /\ \A j \in DOMAIN v.kvs :
                     /\ v.kvs[j][1] \in DOMAIN e.doc
                     /\ ScalarEquals(e.doc[v.kvs[j][1]], v.kvs[j][2])
         [] TypeBracket(v) = "array" ->
               /\ Len(v.elems) = Len(e.elems)
               /\ \A i \in DOMAIN v.elems : ScalarEquals(e.elems[i], v.elems[i])
         [] TypeBracket(v) = "null" -> TRUE
         [] OTHER -> e.v = v.v

\* {path: v} with v not an operator document: equality; null also matches
\* a missing field, and an array field matches through any of its items.
ValueEquals(e, v) ==
    IF v.t = "null" THEN ~Present(e) \/ e.t \in {"null", "undefined"}
    ELSE /\ Present(e)
         /\ \/ ScalarEquals(e, v)
            \/ e.t = "array" /\ \E i \in DOMAIN e.elems : ScalarEquals(e.elems[i], v)

\* Order comparisons are evaluated between numbers (the model's order
\* filters are numeric); a field of another type bracket does not match.
OrderHolds(e, op, v) ==
    /\ Present(e)
    /\ TypeBracket(e) = "number"
    /\ TypeBracket(v) = "number"
    /\ CASE op = "$lt" -> Tenths(e) < Tenths(v)
         [] op = "$lte" -> Tenths(e) <= Tenths(v)
         [] op = "$gt" -> Tenths(e) > Tenths(v)
         [] OTHER -> Tenths(e) >= Tenths(v)

ComparisonOps == {"$ne", "$in", "$lt", "$lte", "$gt", "$gte"}

OpHolds(e, op, v) ==
    CASE op = "$ne" -> ~ValueEquals(e, v)
      [] op = "$in" -> \E i \in DOMAIN v.elems : ValueEquals(e, v.elems[i])
      [] OTHER -> OrderHolds(e, op, v)

\* A document value is an operator document when its first key starts
\* with '$'; any other document value is a literal to compare with.
IsOperatorDoc(D) == D.t = "document" /\ D.kvs # <<>> /\ IsDollarKey(D.kvs[1][1])

\* An operator document with a key that is no operator is rejected.
FieldValid(D) ==
    IsOperatorDoc(D) =>
        \A j \in DOMAIN D.kvs :
            /\ D.kvs[j][1] \in ComparisonOps
            /\ D.kvs[j][1] = "$in" => D.kvs[j][2].t = "array"

\* Every pair of an operator document has to hold (repeated keys too).
FieldMatches(e, D) ==
    IF IsOperatorDoc(D)
    THEN \A j \in DOMAIN D.kvs : OpHolds(e, D.kvs[j][1], D.kvs[j][2])
    ELSE ValueEquals(e, D)

RECURSIVE QueryValid(_)
QueryValid(q) ==
    \A j \in DOMAIN q :
        LET key == q[j][1]
            val == q[j][2]
        IN  IF key \in {"$or", "$and"}
            THEN /\ val.t = "array"
                 /\ val.elems # <<>>
                 /\ \A i \in DOMAIN val.elems :
                       val.elems[i].t = "document" /\ QueryValid(val.elems[i].kvs)
            ELSE IF IsDollarKey(key) THEN FALSE
            ELSE FieldValid(val)

RECURSIVE Matches(_, _)
Matches(d, q) ==
    \A j \in DOMAIN q :
        LET key == q[j][1]
            val == q[j][2]
        IN  CASE key = "$or" -> \E i \in DOMAIN val.elems : Matches(d, val.elems[i].kvs)
              [] key = "$and" -> \A i \in DOMAIN val.elems : Matches(d, val.elems[i].kvs)
              [] OTHER -> FieldMatches(FieldAt(d, key), val)

(***************************************************************************)
(* The scan: bind data, init_local and the scan function.  Column ids and  *)
(* column indexes count from 1.                                            *)
(***************************************************************************)
\* Column ids from here on are virtual columns (the row id); the engine's
\* value is 2^63, the model's lies beyond every schema it uses.
VIRTUAL_COLUMN_START == 100

\* The number of rows of one output chunk.
STANDARD_VECTOR_SIZE == 2

\* The fields of MongoScanData the scan and the rewriter read.
MongoScanData(names, types, paths, filter, pipeline, expr, mode, explicit) ==
    [column_names |-> names, column_types |-> types, column_name_to_mongo_path |-> paths,
     filter_query |-> filter, pipeline_json |-> pipeline, complex_filter_expr |-> expr,
     schema_mode |-> mode, has_explicit_schema |-> explicit]

\* col_id < VIRTUAL_COLUMN_START && col_id < data.column_names.size()
IsSchemaColumn(col_id, names) == col_id < VIRTUAL_COLUMN_START /\ col_id <= Len(names)

\* The loop of BuildMongoProjection over the column ids from position i:
\* added lists the paths added so far, in the order of their addition.
RECURSIVE ProjectionFields(_, _, _, _, _)
ProjectionFields(column_ids, i, all_column_names, pm, added) ==
    IF i > Len(column_ids) THEN added
    ELSE LET col_id == column_ids[i]
             next(a) == ProjectionFields(column_ids, i + 1, all_column_names, pm, a)
         IN  IF col_id >= VIRTUAL_COLUMN_START \/ col_id > Len(all_column_names) THEN next(added)
             ELSE LET column_name == all_column_names[col_id]
                      mongo_path == IF column_name \in DOMAIN pm THEN pm[column_name]
                                    ELSE column_name
                      is_added(p) == \E j \in DOMAIN added : added[j] = p
                  IN  IF is_added(mongo_path) THEN next(added)
                      ELSE IF HasDot(mongo_path)
                      THEN IF is_added(SplitDot(mongo_path)[1]) THEN next(added)
                           ELSE next(Append(added, mongo_path))
                      ELSE IF \E j \in DOMAIN added :
                                 HasDot(added[j]) /\ SplitDot(added[j])[1] = mongo_path
                           THEN next(added)
                           ELSE next(Append(added, mongo_path))

BuildMongoProjection(column_ids, all_column_names, pm) ==
    LET added_fields == ProjectionFields(column_ids, 1, all_column_names, pm, <<>>)
        fields == [j \in DOMAIN added_fields |-> kvp(added_fields[j], Elem("int32", 1))]
        has_id == \E j \in DOMAIN added_fields : added_fields[j] = "_id"
    IN  IF added_fields = <<>> THEN <<>>
        ELSE IF has_id THEN fields
        ELSE Append(fields, kvp("_id", Elem("int32", 1)))

\* input.op: a LIMIT or STREAMING_LIMIT operator with a constant limit
\* above the scan, or none.
NoOp == [type |-> "NONE"]

LimitOp(type, limit_value) == [type |-> type, limit |-> limit_value]

\* The engine's largest limit value (2^62), beyond every limit of the model.
MAX_LIMIT_VALUE == 1000

\* The limit block of init_local: the limit handed to the find options, -1
\* when none is.
PushedLimit(op) ==
    IF op.type \in {"LIMIT", "STREAMING_LIMIT"} /\ op.limit > 0 /\ op.limit < MAX_LIMIT_VALUE
    THEN op.limit ELSE -1

\* The filter set handed to init_local is keyed by positions of the
\* column-id list; the remapped set is keyed by schema indexes.
RemapFilters(filters, column_ids, names) ==
    LET positions == {i \in DOMAIN filters : i \in DOMAIN column_ids
                                              /\ IsSchemaColumn(column_ids[i], names)}
        schema_idxs == {column_ids[i] : i \in positions}
    IN  [s \in schema_idxs |->
            filters[CHOOSE i \in positions :
                       column_ids[i] = s /\ \A j \in positions : column_ids[j] = s => j <= i]]

\* The outcome of MongoScanInitLocal up to the opening of the cursor:
\* query_filter and opts are what collection.find is called with.
\* input.filters is null when the engine pushed no filter: the model's
\* empty filter map.
MongoScanInitLocal(data, input) ==
    LET column_ids_needed == {input.column_ids[i] : i \in
                                {i \in DOMAIN input.column_ids :
                                    IsSchemaColumn(input.column_ids[i], data.column_names)}}
        has_filters == DOMAIN input.filters # {}
        remapped_filters == RemapFilters(input.filters, input.column_ids, data.column_names)
        \* from the projection on: the requested columns are known
        Requested(sorted_indices, query_filter, filters_pushed_down) ==
            [filter_query |-> data.filter_query,
             requested_column_indices |-> sorted_indices,
             requested_column_names |-> [i \in DOMAIN sorted_indices |->
                                            data.column_names[sorted_indices[i]]],
             requested_column_types |-> [i \in DOMAIN sorted_indices |->
                                            data.column_types[sorted_indices[i]]],
             projection_document |-> IF sorted_indices = <<>> THEN <<>>
                                     ELSE BuildMongoProjection(sorted_indices, data.column_names,
                                                               data.column_name_to_mongo_path),
             limit |-> PushedLimit(input.op),
             query_filter |-> query_filter,
             filters_pushed_down |-> filters_pushed_down]
        \* from the filter-column block on: what was pushed is known
        Pushed(query_filter, filters_pushed_down) ==
            Requested(SortedSeq(column_ids_needed
                                \cup IF has_filters /\ input.column_ids # <<>>
                                        /\ ~filters_pushed_down
                                     THEN DOMAIN remapped_filters ELSE {}),
                      query_filter, filters_pushed_down)
        \* the filter block, given the translation of the remapped filters
        Filtered(mongo_filter) ==
            Pushed(IF has_filters
                   THEN IF DOMAIN remapped_filters # {} THEN mongo_filter ELSE <<>>
                   ELSE IF data.filter_query # EmptyString THEN from_json(data.filter_query)
                   ELSE <<>>,
                   IF has_filters
                   THEN DOMAIN remapped_filters # {} /\ Len(mongo_filter) > 0
                   ELSE data.filter_query # EmptyString)
    IN  Filtered(ConvertFiltersToMongoQuery(remapped_filters, data.column_names,
                                            data.column_types, data.column_name_to_mongo_path))

(***************************************************************************)
(* The database's side of collection.find(query_filter, opts).             *)
(***************************************************************************)
\* The document a projection returns: the projected top-level fields, and
\* under a dotted path the named field of the sub-document.
ProjectDocument(d, projection) ==
    IF projection = <<>> THEN d
    ELSE LET paths == {projection[j][1] : j \in DOMAIN projection}
             whole == {k \in DOMAIN d : k \in paths}
             partial == {k \in DOMAIN d \ whole :
                            /\ d[k].t = "document"
                            /\ \E p \in paths : HasDot(p) /\ SplitDot(p)[1] = k}
         IN  [k \in whole \cup partial |->
                IF k \in whole THEN d[k]
                ELSE DocElem([s \in {s \in DOMAIN d[k].doc :
                                        \E p \in paths : HasDot(p) /\ SplitDot(p) = <<k, s>>}
                              |-> d[k].doc[s]])]

\* The documents the cursor yields, in the collection's order; a filter
\* the database rejects makes find throw.
FindThrows(query_filter) == ~QueryValid(query_filter)

FindResult(coll, query_filter, projection, limit) ==
    LET matching == SelectSeq(coll, LAMBDA d : Matches(d, query_filter))
        limited == IF limit > 0 /\ limit < Len(matching) THEN SubSeq(matching, 1, limit)
                   ELSE matching
    IN  [i \in DOMAIN limited |-> ProjectDocument(limited[i], projection)]

(***************************************************************************)
(* One call of MongoScanFunction: the chunk it emits and the state after.  *)
(* state.cursor lists the documents the cursor has not yielded yet.        *)
(***************************************************************************)
Min(a, b) == IF a <= b THEN a ELSE b

\* MongoScanFunction advancing the cursor once more than it emits rows.
MongoScanFunction_SkipsOne(state, bind_data, output_column_count) ==
    IF state.finished THEN [state |-> state, chunk |-> <<>>]
    ELSE IF output_column_count = 1 /\ Len(state.requested_column_names) > 1
    THEN \* COUNT(*): the documents are counted, no column is written
         LET count == Min(STANDARD_VECTOR_SIZE, Len(state.cursor))
             rest == SubSeq(state.cursor, count + 1, Len(state.cursor))
         IN  [state |-> [state EXCEPT !.requested_column_names = <<>>,
                                      !.requested_column_types = <<>>,
                                      !.requested_column_indices = <<>>,
                                      !.cursor = rest,
                                      !.finished = (rest = <<>>)],
              chunk |-> [i \in 1..count |-> <<Unset>>]]
    ELSE LET column_names_used == IF state.requested_column_names # <<>>
                                  THEN state.requested_column_names
                                  ELSE bind_data.column_names
             column_types_used == IF state.requested_column_names # <<>>
                                  THEN state.requested_column_types
                                  ELSE bind_data.column_types
             num_cols_to_use == Min(Len(column_names_used), output_column_count)
             trunc_names == SubSeq(column_names_used, 1, num_cols_to_use)
             trunc_types == SubSeq(column_types_used, 1, num_cols_to_use)
             count == Min(STANDARD_VECTOR_SIZE, Len(state.cursor))
             rest == SubSeq(state.cursor, count + 2, Len(state.cursor))
         IN  [state |-> [state EXCEPT !.cursor = rest, !.finished = (rest = <<>>)],
              chunk |-> [i \in 1..count |->
                            FlattenDocument(state.cursor[i], trunc_names, trunc_types,
                                            [c \in 1..output_column_count |-> Unset],
                                            bind_data.column_name_to_mongo_path,
                                            "PERMISSIVE", FALSE).out]]

MongoScanFunction(state, bind_data, output_column_count) ==
    IF state.finished THEN [state |-> state, chunk |-> <<>>]
    ELSE IF output_column_count = 1 /\ Len(state.requested_column_names) > 1
    THEN \* COUNT(*): the documents are counted, no column is written
         LET count == Min(STANDARD_VECTOR_SIZE, Len(state.cursor))
             rest == SubSeq(state.cursor, count + 1, Len(state.cursor))
         IN  [state |-> [state EXCEPT !.requested_column_names = <<>>,
                                      !.requested_column_types = <<>>,
                                      !.requested_column_indices = <<>>,
                                      !.cursor = rest,
                                      !.finished = (rest = <<>>)],
              chunk |-> [i \in 1..count |-> <<Unset>>]]
    ELSE LET column_names_used == IF state.requested_column_names # <<>>
                                  THEN state.requested_column_names
                                  ELSE bind_data.column_names
             column_types_used == IF state.requested_column_names # <<>>
                                  THEN state.requested_column_types
                                  ELSE bind_data.column_types
             num_cols_to_use == Min(Len(column_names_used), output_column_count)
             trunc_names == SubSeq(column_names_used, 1, num_cols_to_use)
             trunc_types == SubSeq(column_types_used, 1, num_cols_to_use)
             count == Min(STANDARD_VECTOR_SIZE, Len(state.cursor))
             rest == SubSeq(state.cursor, count + 1, Len(state.cursor))
         IN  [state |-> [state EXCEPT !.cursor = rest, !.finished = (rest = <<>>)],
              chunk |-> [i \in 1..count |->
                            FlattenDocument(state.cursor[i], trunc_names, trunc_types,
                                            [c \in 1..output_column_count |-> Unset],
                                            bind_data.column_name_to_mongo_path,
                                            "PERMISSIVE", FALSE).out]]

(***************************************************************************)
(* The plan rewriter.  A plan is a chain of operators, from the root to    *)
(* the scan: every operator but the last has the next one as its first     *)
(* child.  A cross product holds the chain of its second child in right.   *)
(* Table indexes identify the operators that produce columns; column       *)
(* indexes count from 1.                                                   *)
(***************************************************************************)
ColumnBinding(table_index, column_index) ==
    [table_index |-> table_index, column_index |-> column_index]

\* name is what GetName() returns: the alias, or the name of the column.
BoundColumnRef(name, binding, return_type) ==
    [class |-> "BOUND_COLUMN_REF", name |-> name, binding |-> binding,
     return_type |-> return_type]

BoundCast(child) == [class |-> "BOUND_CAST", child |-> child]

BoundConstant(value) == [class |-> "BOUND_CONSTANT", value |-> value]

BoundAggregate(function_name, children, distinct, has_filter, has_order_bys, return_type) ==
    [class |-> "BOUND_AGGREGATE", function_name |-> function_name, children |-> children,
     distinct |-> distinct, has_filter |-> has_filter, has_order_bys |-> has_order_bys,
     return_type |-> return_type]

BoundOrderByNode(type, expression) == [type |-> type, expression |-> expression]

LogicalTopN(orders, limit, offset) ==
    [type |-> "LOGICAL_TOP_N", orders |-> orders, limit |-> limit, offset |-> offset]

LogicalLimit(limit) == [type |-> "LOGICAL_LIMIT", limit |-> limit]

LogicalOrder(orders) == [type |-> "LOGICAL_ORDER_BY", orders |-> orders]

LogicalFilter(expressions) == [type |-> "LOGICAL_FILTER", expressions |-> expressions]

LogicalCrossProduct(right) == [type |-> "LOGICAL_CROSS_PRODUCT", right |-> right]

LogicalProjection(table_index, expressions) ==
    [type |-> "LOGICAL_PROJECTION", table_index |-> table_index, expressions |-> expressions]

LogicalAggregate(group_index, aggregate_index, groups, expressions, grouping_sets, grouping_functions) ==
    [type |-> "LOGICAL_AGGREGATE_AND_GROUP_BY", group_index |-> group_index,
     aggregate_index |-> aggregate_index, groups |-> groups, expressions |-> expressions,
     grouping_sets |-> grouping_sets, grouping_functions |-> grouping_functions]

\* table_filters is keyed by schema column indexes.
LogicalGet(table_index, function_name, bind_data, column_ids, table_filters, named_parameters) ==
    [type |-> "LOGICAL_GET", table_index |-> table_index, function_name |-> function_name,
     bind_data |-> bind_data, column_ids |-> column_ids, table_filters |-> table_filters,
     named_parameters |-> named_parameters]

NoParameters == [x \in {} |-> EmptyString]

NoFilters == [x \in {} |-> IsNullFilter]

NoPaths == [x \in {} |-> ""]

SetParameter(named_parameters, key, value) ==
    [x \in DOMAIN named_parameters \cup {key} |->
        IF x = key THEN value ELSE named_parameters[x]]

\* StringUtil::Lower over the names of the model.
Lower(str) ==
    CASE str = "_ID" -> "_id"
      [] str = "MONGO_SCAN" -> "mongo_scan"
      [] str = "COUNT_STAR" -> "count_star"
      [] str = "SUBSTR" -> "substr"
      [] OTHER -> str

CIEquals(l, r) == Lower(l) = Lower(r)

\* The bind data of a table function that is not this scan.
NoBindData == [null |-> TRUE]

IsMongoScan(get) == CIEquals(get.function_name, "mongo_scan") /\ get.bind_data # NoBindData

JoinJsonArray(stages) == [json |-> [i \in DOMAIN stages |-> JsonOfValue(QDoc(stages[i]))]]

BuildMatchFromExistingFilters(get, data) ==
    LET manual == IF data.filter_query # EmptyString THEN <<from_json(data.filter_query)>> ELSE <<>>
        complex == IF data.complex_filter_expr # <<>>
                   THEN <<<<kvp("$expr", QDoc(data.complex_filter_expr))>>>> ELSE <<>>
        Simple(simple) == IF simple # <<>> THEN <<simple>> ELSE <<>>
        Combine(conjuncts) ==
            IF conjuncts = <<>> THEN <<>>
            ELSE IF Len(conjuncts) = 1 THEN conjuncts[1]
            ELSE <<kvp("$and", ArrayElem([i \in DOMAIN conjuncts |-> QDoc(conjuncts[i])]))>>
    IN  Combine(manual
                \o Simple(IF DOMAIN get.table_filters # {}
                          THEN ConvertFiltersToMongoQuery(get.table_filters, data.column_names,
                                                          data.column_types,
                                                          data.column_name_to_mongo_path)
                          ELSE <<>>)
                \o complex)

\* The chain of projections under position k of the plan, and the position
\* of the operator that follows them.
RECURSIVE ScanChildIndex(_, _)
ScanChildIndex(plan, i) ==
    IF i <= Len(plan) /\ plan[i].type = "LOGICAL_PROJECTION" /\ i < Len(plan)
    THEN ScanChildIndex(plan, i + 1) ELSE i

ProjectionChain(plan, k) == SubSeq(plan, k + 1, ScanChildIndex(plan, k + 1) - 1)

\* The loop of ResolveColumnRefToScan: the binding after the projections
\* from position i on have been followed.
RECURSIVE FollowProjections(_, _, _)
FollowProjections(binding, projections, i) ==
    IF i > Len(projections) THEN [ok |-> TRUE, binding |-> binding]
    ELSE LET proj == projections[i]
         IN  IF binding.table_index # proj.table_index
             THEN FollowProjections(binding, projections, i + 1)
             ELSE IF binding.column_index > Len(proj.expressions)
             THEN [ok |-> FALSE, binding |-> binding]
             ELSE IF proj.expressions[binding.column_index].class # "BOUND_COLUMN_REF"
             THEN [ok |-> FALSE, binding |-> binding]
             ELSE FollowProjections(proj.expressions[binding.column_index].binding,
                                    projections, i + 1)

NotResolved == [ok |-> FALSE, col_idx |-> 0]

Resolved(col_idx) == [ok |-> TRUE, col_idx |-> col_idx]

ResolveColumnRefToScan(expr, projections, scan_table_index) ==
    IF expr.class # "BOUND_COLUMN_REF" THEN NotResolved
    ELSE LET r == FollowProjections(expr.binding, projections, 1)
         IN  IF ~r.ok \/ r.binding.table_index # scan_table_index THEN NotResolved
             ELSE Resolved(r.binding.column_index)

ResolveColumnRefToScanWithName(expr, projections, data, scan_table_index) ==
    LET r == ResolveColumnRefToScan(expr, projections, scan_table_index)
        expr_name == expr.name
        named == {i \in DOMAIN data.column_names : CIEquals(data.column_names[i], expr_name)}
    IN  IF ~r.ok THEN NotResolved
        ELSE IF r.col_idx <= Len(data.column_names)
                /\ CIEquals(data.column_names[r.col_idx], expr_name)
        THEN r
        ELSE IF HasDot(expr_name) THEN r
        ELSE IF named # {} THEN Resolved(CHOOSE i \in named : \A j \in named : i <= j)
        ELSE NotResolved

NotSupported == [ok |-> FALSE, kind |-> "", child_col |-> 0]

IsSupportedAggregate(aggr, get, projections, data) ==
    LET fname == Lower(aggr.function_name)
        r == ResolveColumnRefToScanWithName(aggr.children[1], projections, data,
                                            get.table_index)
    IN  IF aggr.distinct \/ aggr.has_filter \/ aggr.has_order_bys THEN NotSupported
        ELSE IF fname = "count_star"
        THEN [ok |-> aggr.children = <<>>, kind |-> "count_star", child_col |-> 0]
        ELSE IF fname \in {"count", "sum", "min", "max", "avg"}
        THEN IF Len(aggr.children) # 1 THEN NotSupported
             ELSE IF ~r.ok THEN NotSupported
             ELSE [ok |-> TRUE, kind |-> fname, child_col |-> r.col_idx]
        ELSE NotSupported

BuildTopNPipelineJson(get, data, order, limit) ==
    LET MatchStage(match_doc) ==
            IF match_doc # <<>> THEN <<<<kvp("$match", QDoc(match_doc))>>>> ELSE <<>>
        sort_spec == <<kvp("_id", Elem("int32", IF order = "ASCENDING" THEN 1 ELSE -1))>>
        sort_stage == <<kvp("$sort", QDoc(sort_spec))>>
        limit_stage == <<kvp("$limit", Elem("int64", limit))>>
    IN  JoinJsonArray(MatchStage(BuildMatchFromExistingFilters(get, data))
                      \o <<sort_stage, limit_stage>>)

NotRewritten(plan) == [fired |-> FALSE, plan |-> plan]

\* RewriteMongoTopN at the node at position k of the plan.
RewriteMongoTopN(plan, k) ==
    IF k > Len(plan) \/ plan[k].type # "LOGICAL_TOP_N" THEN NotRewritten(plan)
    ELSE LET topn == plan[k]
             projections == ProjectionChain(plan, k)
             g == ScanChildIndex(plan, k + 1)
         IN  IF k = Len(plan) THEN NotRewritten(plan)
             ELSE IF topn.offset # 0 \/ topn.limit = 0 THEN NotRewritten(plan)
             ELSE IF Len(topn.orders) # 1 THEN NotRewritten(plan)
             ELSE IF g > Len(plan) \/ plan[g].type # "LOGICAL_GET" THEN NotRewritten(plan)
             ELSE IF ~IsMongoScan(plan[g]) THEN NotRewritten(plan)
             ELSE LET get == plan[g]
                      bind == get.bind_data
                      order == topn.orders[1]
                      r == ResolveColumnRefToScanWithName(order.expression, projections, bind,
                                                          get.table_index)
                      NewGet(pipeline_json) ==
                          [get EXCEPT
                             !.bind_data.pipeline_json = pipeline_json,
                             !.named_parameters = SetParameter(@, "pipeline", pipeline_json)]
                  IN  IF ~r.ok THEN NotRewritten(plan)
                      ELSE IF r.col_idx > Len(bind.column_names)
                              \/ ~CIEquals(bind.column_names[r.col_idx], "_id")
                      THEN NotRewritten(plan)
                      ELSE [fired |-> TRUE,
                            plan |-> SubSeq(plan, 1, k - 1) \o SubSeq(plan, k + 1, g - 1)
                                     \o <<NewGet(BuildTopNPipelineJson(get, bind, order.type,
                                                                        topn.limit))>>]

\* The stages of the aggregation pipeline: group_fields lists
\* <<output field name, mongo path>>, aggs lists <<output field, spec>>.
BuildAggregatePipelineJson(get, data, group_fields, aggs, ungrouped_count_only) ==
    LET MatchStage(match_doc) ==
            IF match_doc # <<>> THEN <<<<kvp("$match", QDoc(match_doc))>>>> ELSE <<>>
        count_stage == <<kvp("$count", Elem("string", "count"))>>
        id_doc == [i \in DOMAIN group_fields |->
                      kvp(group_fields[i][1], Elem("string", "$" \o group_fields[i][2]))]
        group_id == IF group_fields = <<>> THEN kvp("_id", Elem("null", 0))
                    ELSE kvp("_id", QDoc(id_doc))
        group_spec == <<group_id>> \o [i \in DOMAIN aggs |-> kvp(aggs[i][1], QDoc(aggs[i][2]))]
        group_stage == <<kvp("$group", QDoc(group_spec))>>
        project_spec == [i \in DOMAIN group_fields |->
                            kvp(group_fields[i][1],
                                Elem("string", "$_id." \o group_fields[i][1]))]
                        \o [i \in DOMAIN aggs |-> kvp(aggs[i][1], Elem("int32", 1))]
                        \o <<kvp("_id", Elem("int32", 0))>>
        project_stage == <<kvp("$project", QDoc(project_spec))>>
    IN  JoinJsonArray(MatchStage(BuildMatchFromExistingFilters(get, data))
                      \o (IF ungrouped_count_only THEN <<count_stage>>
                          ELSE <<group_stage, project_stage>>))

BindingMapRule(from_table_index, to_table_index, column_offset) ==
    [from_table_index |-> from_table_index, to_table_index |-> to_table_index,
     column_offset |-> column_offset]

\* The accumulator of one aggregate expression: StringUtil::Format("__agg%llu", i)
\* with i counted from 0, and its specification.
AggregateField(i) == "__agg" \o ToString(i - 1)

AggregateSpec(kind, path) ==
    CASE kind = "count_star" -> <<kvp("$sum", Elem("int32", 1))>>
      [] kind = "count" ->
            <<kvp("$sum", QDoc(<<kvp("$cond", ArrayElem(<<
                QDoc(<<kvp("$ne", ArrayElem(<<Elem("string", "$" \o path), Elem("null", 0)>>))>>),
                Elem("int32", 1), Elem("int32", 0)>>))>>))>>
      [] OTHER -> <<kvp("$" \o kind, Elem("string", "$" \o path))>>

\* A failed attempt that leaves a rule in the list.
NotAggregated_RuleKept(plan, binding_rules) ==
    [fired |-> FALSE, plan |-> plan,
     binding_rules |-> Append(binding_rules, BindingMapRule(0, 0, 0)), out_of_bounds |-> FALSE]

NotAggregated(plan, binding_rules) ==
    [fired |-> FALSE, plan |-> plan, binding_rules |-> binding_rules, out_of_bounds |-> FALSE]

\* RewriteMongoAggregate at the node at position k of the plan.  An
\* aggregate whose argument resolves to a position beyond the schema makes
\* the code index column_names out of bounds: out_of_bounds reports it.
RewriteMongoAggregate(plan, k, binding_rules) ==
    IF k > Len(plan) \/ plan[k].type # "LOGICAL_AGGREGATE_AND_GROUP_BY"
    THEN NotAggregated(plan, binding_rules)
    ELSE LET aggr == plan[k]
             projections == ProjectionChain(plan, k)
             g == ScanChildIndex(plan, k + 1)
         IN  IF k = Len(plan) THEN NotAggregated(plan, binding_rules)
             ELSE IF aggr.grouping_sets > 1 \/ aggr.grouping_functions # 0
             THEN NotAggregated(plan, binding_rules)
             ELSE IF g > Len(plan) \/ plan[g].type # "LOGICAL_GET"
             THEN NotAggregated(plan, binding_rules)
             ELSE IF ~IsMongoScan(plan[g]) THEN NotAggregated(plan, binding_rules)
             ELSE
             LET get == plan[g]
                 bind == get.bind_data
                 pm == bind.column_name_to_mongo_path
                 gres == [i \in DOMAIN aggr.groups |->
                            ResolveColumnRefToScanWithName(aggr.groups[i], projections, bind,
                                                           get.table_index)]
                 groups_ok == \A i \in DOMAIN aggr.groups :
                                 /\ gres[i].ok
                                 /\ gres[i].col_idx <= Len(bind.column_names)
                                 /\ bind.column_names[gres[i].col_idx] \in DOMAIN pm
                 group_fields == [i \in DOMAIN aggr.groups |->
                                    <<bind.column_names[gres[i].col_idx],
                                      pm[bind.column_names[gres[i].col_idx]]>>]
                 group_types == [i \in DOMAIN aggr.groups |-> aggr.groups[i].return_type]
                 ungrouped == aggr.groups = <<>>
                 \* the loop over the aggregate expressions and what follows
                 \* it, given what IsSupportedAggregate says of each
                 WithSupport(sup) ==
                     LET count_star_only == /\ Len(aggr.expressions) = 1
                                            /\ ungrouped
                                            /\ sup[1].ok
                                            /\ sup[1].kind = "count_star"
                         \* the first expression at which the loop returns
                         \* false or reads out of bounds; 0 when it completes
                         reads_column(i) == sup[i].ok /\ sup[i].kind # "count_star"
                         oob(i) == reads_column(i) /\ sup[i].child_col > Len(bind.column_names)
                         fails(i) == \/ ~sup[i].ok
                                     \/ /\ reads_column(i)
                                        /\ ~oob(i)
                                        /\ bind.column_names[sup[i].child_col] \notin DOMAIN pm
                         stops == {i \in DOMAIN aggr.expressions : fails(i) \/ oob(i)}
                         first_stop == IF stops = {} THEN 0
                                       ELSE CHOOSE i \in stops : \A j \in stops : i <= j
                         agg_specs == [i \in DOMAIN aggr.expressions |->
                                         <<AggregateField(i),
                                           AggregateSpec(sup[i].kind,
                                               IF sup[i].kind = "count_star" THEN ""
                                               ELSE pm[bind.column_names[sup[i].child_col]])>>]
                         agg_types == [i \in DOMAIN aggr.expressions |->
                                         IF sup[i].kind \in {"count_star", "count"} THEN BIGINT
                                         ELSE aggr.expressions[i].return_type]
                         rule == BindingMapRule(aggr.aggregate_index, aggr.group_index,
                                                IF count_star_only THEN 0
                                                ELSE Len(group_fields))
                         Replacement(out_names, out_types, pipeline_json) ==
                             LogicalGet(aggr.group_index, get.function_name,
                                        [bind EXCEPT
                                           !.filter_query = EmptyString,
                                           !.pipeline_json = pipeline_json,
                                           !.column_names = out_names,
                                           !.column_types = out_types,
                                           !.column_name_to_mongo_path =
                                               [n \in {out_names[i] : i \in DOMAIN out_names}
                                                   |-> n],
                                           !.complex_filter_expr = <<>>,
                                           !.schema_mode = "PERMISSIVE",
                                           !.has_explicit_schema = FALSE],
                                        [i \in DOMAIN out_names |-> i], NoFilters,
                                        SetParameter(get.named_parameters, "pipeline",
                                                     pipeline_json))
                     IN  IF ~count_star_only /\ first_stop # 0
                         THEN [NotAggregated(plan, binding_rules) EXCEPT
                                  !.out_of_bounds = oob(first_stop)]
                         ELSE [fired |-> TRUE,
                               plan |-> Append(SubSeq(plan, 1, k - 1),
                                   Replacement(
                                       IF count_star_only THEN <<"count">>
                                       ELSE [i \in DOMAIN group_fields |-> group_fields[i][1]]
                                            \o [i \in DOMAIN agg_specs |-> agg_specs[i][1]],
                                       IF count_star_only THEN <<BIGINT>>
                                       ELSE group_types \o agg_types,
                                       BuildAggregatePipelineJson(
                                           get, bind, group_fields,
                                           IF count_star_only THEN <<>> ELSE agg_specs,
                                           count_star_only))),
                               binding_rules |-> Append(binding_rules, rule),
                               out_of_bounds |-> FALSE]
             IN  IF ~groups_ok THEN NotAggregated(plan, binding_rules)
                 ELSE WithSupport([i \in DOMAIN aggr.expressions |->
                                     IF aggr.expressions[i].class # "BOUND_AGGREGATE"
                                     THEN NotSupported
                                     ELSE IsSupportedAggregate(aggr.expressions[i], get,
                                                               projections, bind)])

\* RewriteMongoPlans from the node at position k down the chain; under a
\* cross product the first child's chain, then the second child's.
RECURSIVE RewriteMongoPlans(_, _, _)
RewriteMongoPlans(plan, k, binding_rules) ==
    LET Children(first) ==
            LET Second(r) ==
                    [plan |-> [first.plan EXCEPT ![k].right = r.plan],
                     binding_rules |-> r.binding_rules, out_of_bounds |-> r.out_of_bounds]
            IN  IF first.out_of_bounds \/ plan[k].type # "LOGICAL_CROSS_PRODUCT" THEN first
                ELSE Second(RewriteMongoPlans(plan[k].right, 1, first.binding_rules))
        Step(t, a) ==
            IF t.fired THEN RewriteMongoPlans(t.plan, k, binding_rules)
            ELSE IF a.fired \/ a.out_of_bounds
            THEN [plan |-> a.plan, binding_rules |-> a.binding_rules,
                  out_of_bounds |-> a.out_of_bounds]
            ELSE Children(RewriteMongoPlans(plan, k + 1, binding_rules))
    IN  IF k > Len(plan)
        THEN [plan |-> plan, binding_rules |-> binding_rules, out_of_bounds |-> FALSE]
        ELSE Step(RewriteMongoTopN(plan, k), RewriteMongoAggregate(plan, k, binding_rules))

\* The rules applied without their column offset.
RECURSIVE ApplyRulesToBinding_NoOffset(_, _, _)
ApplyRulesToBinding_NoOffset(binding, rules, i) ==
    IF i > Len(rules) THEN binding
    ELSE ApplyRulesToBinding_NoOffset(
            IF binding.table_index = rules[i].from_table_index
            THEN ColumnBinding(rules[i].to_table_index, binding.column_index)
            ELSE binding,
            rules, i + 1)

\* One rule after the other is applied to every column reference.
RECURSIVE ApplyRulesToBinding(_, _, _)
ApplyRulesToBinding(binding, rules, i) ==
    IF i > Len(rules) THEN binding
    ELSE ApplyRulesToBinding(
            IF binding.table_index = rules[i].from_table_index
            THEN ColumnBinding(rules[i].to_table_index,
                               binding.column_index + rules[i].column_offset)
            ELSE binding,
            rules, i + 1)

RECURSIVE ApplyBindingRulesToExpression(_, _)
ApplyBindingRulesToExpression(expr, rules) ==
    CASE expr.class = "BOUND_COLUMN_REF" ->
            [expr EXCEPT !.binding = ApplyRulesToBinding(@, rules, 1)]
      [] expr.class = "BOUND_CAST" ->
            [expr EXCEPT !.child = ApplyBindingRulesToExpression(@, rules)]
      [] expr.class \in {"BOUND_AGGREGATE", "BOUND_FUNCTION"} ->
            [expr EXCEPT !.children =
                [i \in DOMAIN @ |-> ApplyBindingRulesToExpression(@[i], rules)]]
      [] expr.class = "BOUND_COMPARISON" ->
            [expr EXCEPT !.left = ApplyBindingRulesToExpression(@, rules),
                         !.right = ApplyBindingRulesToExpression(@, rules)]
      [] OTHER -> expr

RECURSIVE ApplyBindingRulesToOperator(_, _)
ApplyBindingRulesToNode(op, rules) ==
    CASE op.type = "LOGICAL_PROJECTION" ->
            [op EXCEPT !.expressions =
                [i \in DOMAIN @ |-> ApplyBindingRulesToExpression(@[i], rules)]]
      [] op.type \in {"LOGICAL_AGGREGATE_AND_GROUP_BY", "LOGICAL_FILTER"} ->
            [op EXCEPT !.expressions =
                [i \in DOMAIN @ |-> ApplyBindingRulesToExpression(@[i], rules)]]
      [] op.type \in {"LOGICAL_TOP_N", "LOGICAL_ORDER_BY"} ->
            [op EXCEPT !.orders =
                [i \in DOMAIN @ |->
                    [@[i] EXCEPT !.expression = ApplyBindingRulesToExpression(@, rules)]]]
      [] op.type = "LOGICAL_CROSS_PRODUCT" ->
            [op EXCEPT !.right = ApplyBindingRulesToOperator(@, rules)]
      [] OTHER -> op

ApplyBindingRulesToOperator(plan, rules) ==
    [i \in DOMAIN plan |-> ApplyBindingRulesToNode(plan[i], rules)]

\* The optimizer extension: the plan after it, and whether it read beyond
\* the schema on the way.
MongoOptimizerOptimize(plan) ==
    LET Rewritten(r) ==
            [plan |-> IF r.binding_rules # <<>> /\ r.plan # <<>>
                      THEN ApplyBindingRulesToOperator(r.plan, r.binding_rules)
                      ELSE r.plan,
             out_of_bounds |-> r.out_of_bounds]
    IN  Rewritten(RewriteMongoPlans(plan, 1, <<>>))

(***************************************************************************)
(* The walk of RewriteMongoPlans, one node at a time.  A node is named by  *)
(* its path: <<k>> is position k of the plan's chain, <<k, j>> position j  *)
(* of the second child's chain of the cross product at position k.         *)
(***************************************************************************)
ChainAt(plan, path) == IF Len(path) = 1 THEN plan ELSE plan[path[1]].right

PositionOf(path) == path[Len(path)]

WithChain(plan, path, chain) ==
    IF Len(path) = 1 THEN chain ELSE [plan EXCEPT ![path[1]].right = chain]

\* node->children, in order.
ChildrenOf(plan, path) ==
    LET Of(chain, k) ==
            (IF k < Len(chain) THEN <<[path EXCEPT ![Len(path)] = k + 1]>> ELSE <<>>)
            \o (IF chain[k].type = "LOGICAL_CROSS_PRODUCT" THEN <<path \o <<1>>>> ELSE <<>>)
    IN  Of(ChainAt(plan, path), PositionOf(path))


(***************************************************************************)
(* The pushdown of complex filter expressions into $expr.                  *)
(***************************************************************************)
BoundComparison(type, left, right) ==
    [class |-> "BOUND_COMPARISON", type |-> type, left |-> left, right |-> right]

\* is_volatile and can_throw are the function's stability and error
\* properties as the engine registered them.
BoundFunction(name, children, return_type, is_volatile, can_throw) ==
    [class |-> "BOUND_FUNCTION", name |-> name, children |-> children,
     return_type |-> return_type, is_volatile |-> is_volatile, can_throw |-> can_throw]

\* Expression::IsVolatile and Expression::CanThrow: the property of the
\* node or of one of its children.
RECURSIVE HasProperty(_, _)
HasProperty(expr, property) ==
    CASE expr.class = "BOUND_FUNCTION" ->
            expr[property] \/ \E i \in DOMAIN expr.children : HasProperty(expr.children[i], property)
      [] expr.class = "BOUND_COMPARISON" ->
            HasProperty(expr.left, property) \/ HasProperty(expr.right, property)
      [] expr.class = "BOUND_CAST" -> HasProperty(expr.child, property)
      [] OTHER -> FALSE

IsVolatile(expr) == HasProperty(expr, "is_volatile")

CanThrow(expr) == HasProperty(expr, "can_throw")

\* The expression under the casts that wrap it.
RECURSIVE Unwrapped(_)
Unwrapped(expr) == IF expr.class = "BOUND_CAST" THEN Unwrapped(expr.child) ELSE expr

NoColumnRef == [class |-> "nullptr"]

UnwrapCastToColumnRef(expr) ==
    IF Unwrapped(expr).class = "BOUND_COLUMN_REF" THEN Unwrapped(expr) ELSE NoColumnRef

\* The column index of a binding counts from 0.
GetMongoPathForColumn(col_ref, column_names, column_name_to_mongo_path) ==
    LET col_idx == col_ref.binding.column_index
    IN  IF col_idx >= Len(column_names) THEN ""
        ELSE IF column_names[col_idx + 1] \in DOMAIN column_name_to_mongo_path
        THEN "$" \o column_name_to_mongo_path[column_names[col_idx + 1]]
        ELSE "$" \o column_names[col_idx + 1]

GetMongoPathFromExpression(expr, column_names, column_name_to_mongo_path) ==
    IF UnwrapCastToColumnRef(expr) # NoColumnRef
    THEN GetMongoPathForColumn(UnwrapCastToColumnRef(expr), column_names, column_name_to_mongo_path)
    ELSE ""

AppendConstantToBSONArray(const_expr, array_builder) ==
    Append(array_builder,
           CASE const_expr.value.ty.id = "VARCHAR" -> Elem("string", const_expr.value.v)
             [] const_expr.value.ty.id = "BIGINT" -> Elem("int64", const_expr.value.v)
             [] const_expr.value.ty.id = "DOUBLE" -> Elem("double", const_expr.value.v)
             [] const_expr.value.ty.id = "BOOLEAN" -> Elem("bool", const_expr.value.v)
             [] OTHER -> Elem("string", const_expr.value.v))

\* MONGO_FUNCTION_MAPPINGS.
MongoFunctionMapping(mongo_operator, arg_count, required_arg_types) ==
    [mongo_operator |-> mongo_operator, arg_count |-> arg_count,
     required_arg_types |-> required_arg_types]

NoMapping == [mongo_operator |-> ""]

FindFunctionMapping(func_name) ==
    CASE Lower(func_name) \in {"length", "len", "char_length", "character_length"} ->
            MongoFunctionMapping("$strLenCP", 1, <<"VARCHAR">>)
      [] Lower(func_name) \in {"substring", "substr"} -> MongoFunctionMapping("$substrCP", 3, <<>>)
      [] OTHER -> NoMapping

ValidateFunctionSignature(func_expr, mapping) ==
    IF Len(func_expr.children) # mapping.arg_count THEN FALSE
    ELSE IF /\ mapping.required_arg_types # <<>>
            /\ Len(mapping.required_arg_types) = mapping.arg_count
            /\ \E i \in 1..mapping.arg_count :
                  func_expr.children[i].return_type.id # mapping.required_arg_types[i]
    THEN FALSE
    ELSE IF mapping.mongo_operator = "$substrCP"
    THEN /\ func_expr.children[1].return_type.id = "VARCHAR"
         /\ func_expr.children[2].class = "BOUND_CONSTANT"
         /\ func_expr.children[3].class = "BOUND_CONSTANT"
    ELSE TRUE

IsSafeMongoFunction(func_expr) ==
    IF FindFunctionMapping(func_expr.name) = NoMapping THEN FALSE
    ELSE IF FindFunctionMapping(func_expr.name).mongo_operator # "$substrCP" THEN FALSE
    ELSE IF ~ValidateFunctionSignature(func_expr, FindFunctionMapping(func_expr.name)) THEN FALSE
    ELSE func_expr.children[2].value.v >= 1 /\ func_expr.children[3].value.v >= 0

IsSafeMongoExpr(expr) ==
    IF expr.class # "BOUND_COMPARISON" THEN FALSE
    ELSE IF expr.left.class = "BOUND_FUNCTION" THEN IsSafeMongoFunction(expr.left)
    ELSE IF expr.right.class = "BOUND_FUNCTION" THEN IsSafeMongoFunction(expr.right)
    ELSE FALSE

NotConverted == [ok |-> FALSE, doc |-> <<>>]

Converted(doc) == [ok |-> TRUE, doc |-> doc]

\* The argument loop of ConvertFunctionToMongoExpr from argument i on;
\* Failed stands for the return of false inside the loop.
RECURSIVE FunctionArgs(_, _, _, _, _, _)
FunctionArgs(func_expr, mapping, column_names, column_name_to_mongo_path, i, args) ==
    IF i > Len(func_expr.children) THEN [ok |-> TRUE, args |-> args]
    ELSE LET arg == func_expr.children[i]
             Rest(more) == FunctionArgs(func_expr, mapping, column_names,
                                        column_name_to_mongo_path, i + 1, more)
         IN  IF UnwrapCastToColumnRef(arg) # NoColumnRef
             THEN IF GetMongoPathForColumn(UnwrapCastToColumnRef(arg), column_names,
                                           column_name_to_mongo_path) = ""
                  THEN [ok |-> FALSE, args |-> args]
                  ELSE Rest(Append(args, Elem("string",
                                GetMongoPathForColumn(UnwrapCastToColumnRef(arg), column_names,
                                                      column_name_to_mongo_path))))
             ELSE IF arg.class = "BOUND_CONSTANT"
             THEN IF mapping.mongo_operator = "$substrCP" /\ i = 2
                  THEN Rest(Append(args, Elem("int64", arg.value.v - 1)))
                  ELSE Rest(AppendConstantToBSONArray(arg, args))
             ELSE [ok |-> FALSE, args |-> args]

ConvertFunctionToMongoExpr(func_expr, column_names, column_name_to_mongo_path) ==
    LET Build(mapping) ==
            LET Made(r) == IF r.ok THEN Converted(<<kvp(mapping.mongo_operator, ArrayElem(r.args))>>)
                           ELSE NotConverted
            IN  Made(FunctionArgs(func_expr, mapping, column_names, column_name_to_mongo_path,
                                  1, <<>>))
    IN  IF FindFunctionMapping(func_expr.name) = NoMapping THEN NotConverted
        ELSE IF ~ValidateFunctionSignature(func_expr, FindFunctionMapping(func_expr.name))
        THEN NotConverted
        ELSE Build(FindFunctionMapping(func_expr.name))

IsSimpleColumnToConstantComparison(expr) ==
    /\ expr.class = "BOUND_COMPARISON"
    /\ Unwrapped(expr.left).class = "BOUND_COLUMN_REF"
    /\ Unwrapped(expr.right).class = "BOUND_CONSTANT"

\* ColumnLifetimeAnalyzer::ExtractColumnBindings.
RECURSIVE ExtractColumnBindings(_)
ExtractColumnBindings(expr) ==
    CASE expr.class = "BOUND_COLUMN_REF" -> {expr.binding}
      [] expr.class = "BOUND_FUNCTION" ->
            UNION {ExtractColumnBindings(expr.children[i]) : i \in DOMAIN expr.children}
      [] expr.class = "BOUND_COMPARISON" ->
            ExtractColumnBindings(expr.left) \cup ExtractColumnBindings(expr.right)
      [] expr.class = "BOUND_CAST" -> ExtractColumnBindings(expr.child)
      [] OTHER -> {}

\* The operator of a comparison in an aggregation expression.
ExprMongoOp(comp_type) ==
    CASE comp_type = "COMPARE_GREATERTHAN" -> "$gt"
      [] comp_type = "COMPARE_GREATERTHANOREQUALTO" -> "$gte"
      [] comp_type = "COMPARE_LESSTHAN" -> "$lt"
      [] comp_type = "COMPARE_LESSTHANOREQUALTO" -> "$lte"
      [] comp_type = "COMPARE_EQUAL" -> "$eq"
      [] comp_type = "COMPARE_NOTEQUAL" -> "$ne"
      [] OTHER -> ""

\* One side of a comparison as an argument: a path, or a converted call.
ComparisonSide(side, column_names, column_name_to_mongo_path) ==
    IF GetMongoPathFromExpression(side, column_names, column_name_to_mongo_path) # ""
    THEN Converted(Elem("string",
                        GetMongoPathFromExpression(side, column_names, column_name_to_mongo_path)))
    ELSE IF side.class = "BOUND_FUNCTION"
    THEN LET Made(r) == IF r.ok THEN Converted(QDoc(r.doc)) ELSE NotConverted
         IN  Made(ConvertFunctionToMongoExpr(side, column_names, column_name_to_mongo_path))
    ELSE NotConverted

\* The constant of the right side, cast to the type of the left side when
\* the types differ and the cast succeeds: between the integer types here.
RightConstant(left_expr, right_const) ==
    IF left_expr.return_type # right_const.value.ty
       /\ left_expr.return_type.id \in {"BIGINT", "INTEGER"}
       /\ right_const.value.ty.id \in {"BIGINT", "INTEGER"}
    THEN BoundConstant(Val(left_expr.return_type, right_const.value.v))
    ELSE right_const

ConvertExpressionToMongoExpr(expr, column_names, column_name_to_mongo_path, table_index) ==
    IF (IsVolatile(expr) \/ CanThrow(expr)) /\ ~IsSafeMongoExpr(expr) THEN NotConverted
    ELSE IF IsSimpleColumnToConstantComparison(expr) THEN NotConverted
    ELSE IF \E binding \in ExtractColumnBindings(expr) : binding.table_index # table_index
    THEN NotConverted
    ELSE IF expr.class = "BOUND_COMPARISON"
    THEN LET Compare(left_expr, right_expr) ==
                 LET Both(left, right) ==
                         IF ~left.ok \/ ~right.ok THEN NotConverted
                         ELSE Converted(<<kvp(ExprMongoOp(expr.type),
                                              ArrayElem(<<left.doc, right.doc>>))>>)
                 IN  IF ExprMongoOp(expr.type) = "" THEN NotConverted
                     ELSE Both(ComparisonSide(left_expr, column_names, column_name_to_mongo_path),
                               IF right_expr.class = "BOUND_CONSTANT"
                               THEN Converted(AppendConstantToBSONArray(
                                                  RightConstant(left_expr, right_expr), <<>>)[1])
                               ELSE ComparisonSide(right_expr, column_names,
                                                   column_name_to_mongo_path))
         IN  Compare(Unwrapped(expr.left), Unwrapped(expr.right))
    ELSE IF expr.class = "BOUND_FUNCTION"
    THEN ConvertFunctionToMongoExpr(expr, column_names, column_name_to_mongo_path)
    ELSE NotConverted

\* The loop of MongoPushdownComplexFilter from filter i on: kept are the
\* filters left in the vector, expr_builder the $expr document so far.
RECURSIVE PushdownFrom(_, _, _, _, _, _, _, _)
PushdownFrom(filters, i, column_names, column_name_to_mongo_path, table_index, kept, expr_builder, has_complex_filter) ==
    IF i > Len(filters)
    THEN [filters |-> kept, has_complex_filter |-> has_complex_filter,
          complex_filter_expr |-> expr_builder]
    ELSE LET Step(r) ==
                 IF ~r.ok
                 THEN PushdownFrom(filters, i + 1, column_names, column_name_to_mongo_path,
                                   table_index, Append(kept, filters[i]), expr_builder,
                                   has_complex_filter)
                 ELSE PushdownFrom(filters, i + 1, column_names, column_name_to_mongo_path,
                                   table_index, kept,
                                   IF has_complex_filter
                                   THEN <<kvp("$and", ArrayElem(<<QDoc(expr_builder), QDoc(r.doc)>>))>>
                                   ELSE r.doc,
                                   TRUE)
         IN  IF IsSimpleColumnToConstantComparison(filters[i]) THEN Step(NotConverted)
             ELSE Step(ConvertExpressionToMongoExpr(filters[i], column_names,
                                                    column_name_to_mongo_path, table_index))

MongoPushdownComplexFilter(filters, column_names, column_name_to_mongo_path, table_index) ==
    PushdownFrom(filters, 1, column_names, column_name_to_mongo_path, table_index, <<>>, <<>>, FALSE)
(***************************************************************************)
(* The catalog of an attached database: its schema map, the entries of     *)
(* the schema of the database shop, the collection generators and the two  *)
(* caches.  The server has the database shop with the collection orders.   *)
(***************************************************************************)
MaxThreads == 2

MaxOperations == 2

Threads == 1..MaxThreads

LockNames == {"schemas_lock", "entry_lock", "load_lock", "collection_cache_lock",
              "view_info_cache_lock"}

RemoteCollections(database_name) == IF database_name = "shop" THEN {"orders"} ELSE {}

NoGenerator == 0

\* MongoSchemaEntry as its constructor leaves it.
SchemaEntry ==
    [default_generator |-> NoGenerator, is_loaded |-> FALSE, views |-> {},
     loaded_collection_names |-> {}]

\* MongoCollectionGenerator as its constructor leaves it; alive until the
\* unique_ptr that owns it is assigned another generator.
MongoCollectionGenerator(database_name) ==
    [database_name |-> database_name, collections_loaded |-> FALSE, collection_names |-> {},
     alive |-> TRUE]

MongoCatalog(database_name) ==
    [database_name |-> database_name, schemas_scanned |-> FALSE,
     schemas |-> [n \in {} |-> SchemaEntry], generators |-> <<>>,
     collection_cache |-> {}, view_info_cache |-> {}]

\* CreateSchema with IGNORE_ON_CONFLICT.
CreateSchema(cat, schema) ==
    IF schema \in DOMAIN cat.schemas THEN cat
    ELSE [cat EXCEPT !.schemas = [n \in DOMAIN @ \cup {schema} |->
                                     IF n \in DOMAIN @ THEN @[n] ELSE SchemaEntry]]

\* SetDefaultGenerator with a new generator: the assignment to the
\* unique_ptr destroys the generator the entry had.
SetDefaultGenerator(cat, schema, database_name) ==
    LET old == cat.schemas[schema].default_generator
    IN  [cat EXCEPT
           !.generators = Append(IF old # NoGenerator THEN [@ EXCEPT ![old].alive = FALSE]
                                 ELSE @,
                                 MongoCollectionGenerator(database_name)),
           !.schemas[schema].default_generator = Len(cat.generators) + 1]

\* The schema of the database the lookups of entries go to.
EntrySchema == "shop"

\* What the schema scan creates before the generator of the schema shop:
\* with no database name the schema main with its generator; then the
\* schema of the database.
ScanCreated(cat) ==
    IF cat.database_name = ""
    THEN CreateSchema(SetDefaultGenerator(CreateSchema(cat, "main"), "main", ""), EntrySchema)
    ELSE CreateSchema(cat, cat.database_name)

\* The schemas the scan hands to its callback.
ScannedNames(cat) == IF cat.database_name = "" THEN {"main", EntrySchema} ELSE {cat.database_name}

NoResult == [kind |-> "none"]

SchemaResult(name) == [kind |-> "schema", name |-> name]

SchemasResult(names) == [kind |-> "schemas", names |-> names]

EntryResult(found) == [kind |-> "entry", found |-> found]

Cleared == [kind |-> "cleared"]

Raised(what) == [kind |-> "error", what |-> what]

IdleThread ==
    [op |-> "none", arg |-> "", pc |-> "idle", operations |-> 0, result |-> NoResult,
     generator |-> NoGenerator]

\* The calls a thread makes, with the step each begins at.
Calls ==
    {[op |-> "ScanSchemas", arg |-> "", pc |-> "scan_check"],
     [op |-> "LookupSchema", arg |-> "shop", pc |-> "lookup_start"],
     [op |-> "LookupSchema", arg |-> "other", pc |-> "lookup_start"],
     [op |-> "LookupEntry", arg |-> "orders", pc |-> "entry_start"],
     [op |-> "ClearCache", arg |-> "", pc |-> "clear_collections"]}

\* The steps during which the thread is in a call to the server.
NetworkSteps == {"scan_list", "load_names", "entry_names", "bind_view"}

(***************************************************************************)
(* The filters, documents and plans the translation, the scan and the      *)
(* rewriter are checked on.                                                *)
(***************************************************************************)
\* A filter of a type the translation has no case for.
ExpressionFilter == [filter_type |-> "EXPRESSION_FILTER"]

BigintConstants == {Val(BIGINT, c) : c \in 1..MaxConst}

ComparisonFilters ==
    {ConstantFilter(cmp, c) :
        cmp \in SupportedComparisons \cup {"COMPARE_DISTINCT_FROM"}, c \in BigintConstants}

UntranslatableFilters ==
    {ConstantFilter("COMPARE_DISTINCT_FROM", Val(BIGINT, 1)), InFilter(<<>>),
     DynamicFilter(FALSE, IsNullFilter), ExpressionFilter}

LeafFilters ==
    ComparisonFilters
    \cup {IsNullFilter, IsNotNullFilter, InFilter(<<Val(BIGINT, 1), Val(BIGINT, 2)>>),
          InFilter(<<>>), DynamicFilter(FALSE, IsNullFilter),
          DynamicFilter(TRUE, ConstantFilter("COMPARE_GREATERTHAN", Val(BIGINT, 1))),
          OptionalFilter(ConstantFilter("COMPARE_LESSTHAN", Val(BIGINT, 3))),
          ExpressionFilter}

\* The children of the conjunctions of the model.
ChildFilters ==
    {ConstantFilter("COMPARE_EQUAL", Val(BIGINT, 1)),
     ConstantFilter("COMPARE_EQUAL", Val(BIGINT, 2)),
     ConstantFilter("COMPARE_GREATERTHAN", Val(BIGINT, 1)),
     ConstantFilter("COMPARE_LESSTHAN", Val(BIGINT, 3)),
     ConstantFilter("COMPARE_GREATERTHAN", Val(BIGINT, 2)),
     IsNullFilter, IsNotNullFilter, InFilter(<<>>), ExpressionFilter}

ConjunctionFilters ==
    {ConjunctionAndFilter(<<l, r>>) : l \in ChildFilters, r \in ChildFilters}
    \cup {ConjunctionOrFilter(<<l, r>>) : l \in ChildFilters, r \in ChildFilters}

StatusFilters ==
    {ConstantFilter("COMPARE_EQUAL", Val(VARCHAR, "A")),
     ConjunctionOrFilter(<<ConstantFilter("COMPARE_EQUAL", Val(VARCHAR, "A")),
                           ConstantFilter("COMPARE_EQUAL", Val(VARCHAR, "B"))>>),
     ConjunctionOrFilter(<<ConstantFilter("COMPARE_EQUAL", Val(VARCHAR, "A")),
                           ConstantFilter("COMPARE_EQUAL", Val(VARCHAR, "B")),
                           ConstantFilter("COMPARE_EQUAL", Val(VARCHAR, "C"))>>),
     ConjunctionOrFilter(<<ConstantFilter("COMPARE_EQUAL", Val(VARCHAR, "A")), IsNullFilter>>)}

\* The schema the filters are translated against: column b is read from
\* its own field or, under an explicit schema, from the field of column a.
PushdownNames == <<"_id", "a", "b", "status">>

PushdownTypes == <<VARCHAR, BIGINT, BIGINT, VARCHAR>>

PushdownPaths ==
    {[n \in {"_id", "a", "b", "status"} |-> IF n = "b" THEN p ELSE n] : p \in {"b", "a"}}

\* No filter on a column.
NoFilter == [filter_type |-> "NONE"]

BFilters == {ConstantFilter("COMPARE_LESSTHAN", Val(BIGINT, 3)), IsNullFilter, ExpressionFilter}

\* A filter set holds at most one filter a column: fa on column a (index
\* 2), fb on column b (index 3), fs on column status (index 4).
FilterSet(fa, fb, fs) ==
    [i \in {i \in {2, 3, 4} : (CASE i = 2 -> fa [] i = 3 -> fb [] OTHER -> fs) # NoFilter}
        |-> CASE i = 2 -> fa [] i = 3 -> fb [] OTHER -> fs]

FilterSets ==
    {FilterSet(fa, fb, fs) :
        fa \in LeafFilters \cup ConjunctionFilters \cup {NoFilter},
        fb \in BFilters \cup {NoFilter},
        fs \in StatusFilters \cup {NoFilter}} \ {NoFilters}

PushdownDocuments ==
    {[key \in {k \in {"_id", "a", "b", "status"} :
                  CASE k = "_id" -> TRUE [] k = "a" -> Present(a) [] k = "b" -> Present(b)
                    [] OTHER -> Present(s)}
        |-> CASE key = "_id" -> Elem("oid", 1) [] key = "a" -> a [] key = "b" -> b
              [] OTHER -> s] :
        a \in {Missing, Elem("null", 0), Elem("int64", 1), Elem("int64", 2), Elem("int64", 3)},
        b \in {Missing, Elem("int64", 2)},
        s \in {Elem("string", "A"), Elem("string", "C")}}
(***************************************************************************)
(* The collections and plans the scan and the rewriter are checked on.     *)
(***************************************************************************)
ScanNames == <<"_id", "a", "b">>

ScanTypes == <<VARCHAR, BIGINT, BIGINT>>

ScanPaths == [n \in {"_id", "a", "b"} |-> n]

\* The raw filter parameter {"a": {"$gte": 2}}.
RawFilter == to_json(<<kvp("a", QDoc(<<kvp("$gte", Elem("int32", 2))>>))>>)

TypeOfColumn(name) == IF name = "_id" THEN VARCHAR ELSE BIGINT

ScanBind(names, filter_query) ==
    MongoScanData(names, [i \in DOMAIN names |-> TypeOfColumn(names[i])],
                  [n \in {names[i] : i \in DOMAIN names} |-> n], filter_query, EmptyString,
                  <<>>, "PERMISSIVE", FALSE)

ScanDocuments ==
    {[key \in {k \in {"_id", "a", "b"} :
                  CASE k = "_id" -> TRUE [] k = "a" -> Present(a) [] OTHER -> Present(b)}
        |-> CASE key = "_id" -> Elem("oid", 1) [] key = "a" -> a [] OTHER -> b] :
        a \in {Missing, Elem("int64", 1), Elem("int64", 3)},
        b \in {Missing, Elem("int64", 2)}}

Collections == UNION {[1..n -> ScanDocuments] : n \in 0..MaxDocs}

\* The filters the engine pushes on columns a (index 2) and b (index 3).
ScanFilters(fa, fb) ==
    [i \in {i \in {2, 3} : (IF i = 2 THEN fa ELSE fb) # NoFilter} |-> IF i = 2 THEN fa ELSE fb]

ScanFilterSets ==
    {ScanFilters(fa, fb) :
        fa \in {NoFilter, ConstantFilter("COMPARE_GREATERTHAN", Val(BIGINT, 1)),
                ConstantFilter("COMPARE_EQUAL", Val(BIGINT, 3))}
               \cup UntranslatableFilters,
        fb \in {NoFilter, ConstantFilter("COMPARE_LESSTHAN", Val(BIGINT, 3)), ExpressionFilter}}

\* After column pruning the scan lists the columns the query reads; the
\* engine's filters are on columns of that list.
ScanColumnIds == {<<1>>, <<2>>, <<2, 3>>, <<3, 2>>, <<1, 2, 3>>}

MongoGets(names, column_id_lists) ==
    {LogicalGet(1, "mongo_scan", ScanBind(names, filter_query), column_ids, filters,
                NoParameters) :
        filter_query \in {EmptyString, RawFilter},
        column_ids \in column_id_lists,
        filters \in ScanFilterSets}

PrunedGets(names, column_id_lists) ==
    {g \in MongoGets(names, column_id_lists) :
        \A s \in DOMAIN g.table_filters : \E p \in DOMAIN g.column_ids : g.column_ids[p] = s}

\* SELECT COUNT(*): a projection over the ungrouped aggregate, which may
\* read the scan through a projection of a constant.
CountStar(distinct) == BoundAggregate("count_star", <<>>, distinct, FALSE, FALSE, BIGINT)

CountStarPlans(gets) ==
    {<<LogicalProjection(4, <<BoundColumnRef("count_star()", ColumnBinding(3, 1), BIGINT)>>),
       LogicalAggregate(2, 3, <<>>, <<CountStar(distinct)>>, 1, 0)>> \o mid \o <<get>> :
        distinct \in BOOLEAN,
        mid \in {<<>>, <<LogicalProjection(5, <<BoundConstant(Val(BIGINT, 1))>>)>>},
        get \in gets}

ScanPlans ==
    {limit \o <<get>> : limit \in {<<>>, <<LogicalLimit(1)>>},
                        get \in PrunedGets(ScanNames, ScanColumnIds)}
    \cup CountStarPlans({g \in PrunedGets(ScanNames, ScanColumnIds) : g.column_ids = <<1>>})

\* The aliases a select list gives its items.
Aliases == {"_id", "x"}

ColumnOf(get, names, p) == names[get.column_ids[p]]

\* The references to the columns the scan produces: the binding counts
\* the positions of the column-id list.
ScanRefs(get, names, aliases) ==
    {BoundColumnRef(n, ColumnBinding(get.table_index, p), TypeOfColumn(ColumnOf(get, names, p))) :
        p \in DOMAIN get.column_ids, n \in aliases}
    \cup {BoundColumnRef(ColumnOf(get, names, p), ColumnBinding(get.table_index, p),
                         TypeOfColumn(ColumnOf(get, names, p))) :
            p \in DOMAIN get.column_ids}

NameOf(expr) == IF expr.class = "BOUND_COLUMN_REF" THEN expr.name ELSE "x"

SelectLists(get, names) ==
    LET items == ScanRefs(get, names, Aliases)
                 \cup {BoundCast(r) : r \in ScanRefs(get, names, {})}
    IN  UNION {[1..n -> items] : n \in 1..2}

\* The sort keys over a select list: references to its items, by their
\* names, or a cast of one.
SortKeys(table_index, expressions) ==
    LET refs == {BoundColumnRef(NameOf(expressions[i]), ColumnBinding(table_index, i),
                                IF expressions[i].class = "BOUND_COLUMN_REF"
                                THEN expressions[i].return_type ELSE BIGINT) :
                    i \in DOMAIN expressions}
    IN  refs \cup {BoundCast(r) : r \in refs}

OrderLists(keys) ==
    {<<BoundOrderByNode(type, key)>> : type \in {"ASCENDING", "DESCENDING"}, key \in keys}
    \cup {<<BoundOrderByNode("ASCENDING", key), BoundOrderByNode("DESCENDING", key)>> :
            key \in keys}

MaxLimit == 2

TopNs(keys) ==
    {LogicalTopN(orders, limit, offset) :
        orders \in OrderLists(keys), limit \in 0..MaxLimit, offset \in {0, 1}}

OtherGet == LogicalGet(1, "read_csv", NoBindData, <<1, 2>>, NoFilters, NoParameters)

OptimizerNames == {<<"_id", "a">>, <<"a", "_id">>}

OptimizerColumnIds == {<<1>>, <<2>>, <<1, 2>>, <<2, 1>>}

IndexOf(names, name) == CHOOSE i \in DOMAIN names : names[i] = name

\* The scans with the engine's filter a > 1.
FilteredGets(names) ==
    {LogicalGet(1, "mongo_scan", ScanBind(names, EmptyString), column_ids,
                [i \in {IndexOf(names, "a")} |->
                    ConstantFilter("COMPARE_GREATERTHAN", Val(BIGINT, 1))],
                NoParameters) :
        column_ids \in {c \in OptimizerColumnIds :
                           \E p \in DOMAIN c : c[p] = IndexOf(names, "a")}}

\* The scans of the rewriter's plans.
OptimizerGets ==
    {OtherGet}
    \cup {LogicalGet(1, "mongo_scan", ScanBind(names, filter_query), column_ids, NoFilters,
                     NoParameters) :
            names \in OptimizerNames,
            filter_query \in {EmptyString, RawFilter},
            column_ids \in OptimizerColumnIds}
    \cup UNION {FilteredGets(names) : names \in OptimizerNames}

NamesOf(get) == IF get.bind_data = NoBindData THEN <<"_id", "a">> ELSE get.bind_data.column_names

\* The scans one worker runs to the end: the columns read, with and
\* without the engine's filter a > 1 and a limit above the scan.
MaxCursorDocs == 3

MaxCalls == 4

CursorCollections == UNION {[1..n -> ScanDocuments] : n \in 0..MaxCursorDocs}

CursorPlans ==
    {limit \o <<LogicalGet(1, "mongo_scan", ScanBind(ScanNames, EmptyString), column_ids, filters, NoParameters)>> :
        limit \in {<<>>, <<LogicalLimit(1)>>},
        column_ids \in {<<1, 2, 3>>, <<2>>, <<3, 2>>},
        filters \in {NoFilters, ScanFilters(ConstantFilter("COMPARE_GREATERTHAN", Val(BIGINT, 1)), NoFilter)}}


(***************************************************************************)
(* The arrays and LIST types the conversion of arrays is checked on.       *)
(***************************************************************************)
MaxArrayDepth == 3
MaxListDepth == 4

ListScalars == {Elem("int32", 1), Elem("string", 2), Elem("null", 0)}

\* Arrays nested up to depth levels: flat arrays of at most two scalars,
\* and arrays holding a nested array alone or beside a scalar.
RECURSIVE NestedArrays(_)
NestedArrays(depth) ==
    IF depth <= 1 THEN UNION {[1..n -> ListScalars] : n \in 0..2}
    ELSE LET inner == NestedArrays(depth - 1)
         IN  inner
             \cup {<<ArrayElem(x)>> : x \in inner}
             \cup {<<s, ArrayElem(x)>> : s \in ListScalars, x \in inner}
             \cup {<<ArrayElem(x), s>> : s \in ListScalars, x \in inner}

RECURSIVE ListOfDepth(_, _)
ListOfDepth(base_type, depth) ==
    IF depth <= 0 THEN base_type ELSE ListOf(ListOfDepth(base_type, depth - 1))

ListTypes ==
    {ListOfDepth(BIGINT, depth) : depth \in 1..MaxListDepth}
    \cup {ListOf(VARCHAR), ListOf(ListOf(DOUBLE))}

(***************************************************************************)
(* The filters on string columns the ObjectId conversion is checked on.    *)
(***************************************************************************)
ObjectIdNames == <<"_id", "a", "ref_id", "status">>

ObjectIdTypes == <<VARCHAR, StructOf(<<"_id", "b">>, <<VARCHAR, VARCHAR>>), VARCHAR, VARCHAR>>

ObjectIdPaths == [n \in {"_id", "a", "ref_id", "status"} |-> n]

StringConstants == {Val(VARCHAR, s) : s \in ObjectIdHexStrings \cup {"A"}}

\* A comparison, an IN list and disjunctions over a string constant.
StringFilters ==
    UNION {{ConstantFilter("COMPARE_EQUAL", c),
            ConstantFilter("COMPARE_GREATERTHAN", c),
            InFilter(<<c, Val(VARCHAR, "A")>>),
            ConjunctionOrFilter(<<ConstantFilter("COMPARE_EQUAL", c),
                                  ConstantFilter("COMPARE_EQUAL", Val(VARCHAR, "A"))>>),
            ConjunctionOrFilter(<<ConstantFilter("COMPARE_NOTEQUAL", c), IsNullFilter>>)} :
           c \in StringConstants}

\* The filters on the fields of the struct column.
StructFilters == {StructFilter(child_name, f) : child_name \in {"_id", "b"}, f \in StringFilters}

\* The filter set with f[i] on column i, for the columns that have one.
FilterMap(f) == [i \in {i \in DOMAIN f : f[i] # NoFilter} |-> f[i]]

(***************************************************************************)
(* The filter expressions the pushdown into $expr is checked on.           *)
(***************************************************************************)
MaxStart == 2
MaxLength == 1

ExprNames == <<"_id", "s", "n">>

ExprTypes == <<VARCHAR, VARCHAR, BIGINT>>

ExprPaths == [name \in {"_id", "s", "n"} |-> name]

StringColumn == BoundColumnRef("s", ColumnBinding(1, 1), VARCHAR)

NumberColumn == BoundColumnRef("n", ColumnBinding(1, 2), BIGINT)

\* substring(s, start, length): the start and the length are constants or
\* the column n; the engine's flags are free.
SubstringCalls ==
    {BoundFunction(name, <<StringColumn, start, length>>, VARCHAR, is_volatile, can_throw) :
        name \in {"substring", "substr", "SUBSTR"},
        start \in {BoundConstant(Val(BIGINT, c)) : c \in -1..MaxStart} \cup {NumberColumn},
        length \in {BoundConstant(Val(BIGINT, c)) : c \in -1..MaxLength} \cup {NumberColumn},
        is_volatile \in BOOLEAN, can_throw \in BOOLEAN}

SubstringFilters ==
    {BoundComparison("COMPARE_EQUAL", call, BoundConstant(Val(VARCHAR, "ab"))) :
        call \in SubstringCalls}
    \cup {BoundComparison("COMPARE_EQUAL", StringColumn, call) : call \in SubstringCalls}

OtherExpressions ==
    {BoundComparison("COMPARE_GREATERTHAN", NumberColumn, BoundConstant(Val(BIGINT, 1))),
     BoundComparison("COMPARE_EQUAL", StringColumn, BoundColumnRef("_id", ColumnBinding(1, 0), VARCHAR)),
     BoundComparison("COMPARE_DISTINCT_FROM", StringColumn, BoundColumnRef("_id", ColumnBinding(1, 0), VARCHAR))}
    \cup {BoundComparison("COMPARE_GREATERTHAN",
                          BoundFunction("length", <<StringColumn>>, BIGINT, FALSE, can_throw),
                          BoundConstant(Val(BIGINT, 2))) : can_throw \in BOOLEAN}

ExpressionVectors ==
    {<<f>> : f \in SubstringFilters \cup OtherExpressions}
    \cup {<<f, g>> : f \in OtherExpressions, g \in SubstringFilters}
    \cup {<<g, f>> : f \in OtherExpressions, g \in SubstringFilters}

(***************************************************************************)
(* The schemas the projection document is checked on: columns read from a  *)
(* field, from a field of its sub-document and from a field one level      *)
(* deeper, in any order of the schema.                                     *)
(***************************************************************************)
MaxProjected == 3

ProjectionPathOf(name) ==
    CASE name = "a_b" -> "a.b"
      [] name = "a_b_c" -> "a.b.c"
      [] OTHER -> name

ProjectionSchemas ==
    {names \in UNION {[1..n -> {"_id", "a", "a_b", "a_b_c", "b"}] : n \in 1..MaxProjected} :
        \A i, j \in DOMAIN names : names[i] = names[j] => i = j}

ProjectionBind(names) ==
    MongoScanData(names, [i \in DOMAIN names |-> VARCHAR],
                  [n \in {names[i] : i \in DOMAIN names} |-> ProjectionPathOf(n)],
                  EmptyString, EmptyString, <<>>, "PERMISSIVE", TRUE)

\* The scan reads every column of the schema, or the last one alone.
ProjectionPlans ==
    {limit \o <<LogicalGet(1, "mongo_scan", ProjectionBind(names), column_ids, NoFilters, NoParameters)>> :
        limit \in {<<>>, <<LogicalLimit(1)>>},
        names \in ProjectionSchemas,
        column_ids \in {<<1>>, <<1, 2>>, <<2, 1>>, <<1, 2, 3>>, <<3, 1, 2>>, <<3>>}}

(***************************************************************************)
(* The samples the resolution of a field's type is checked on: field a     *)
(* holds a scalar of one of five types in every document.                  *)
(***************************************************************************)
MaxResolve == 4

ResolveDocuments ==
    {MakeDoc(Elem("oid", 1), a, Missing, Missing) :
        a \in {Elem("int32", 7), Elem("double", 25), Elem("string", 1), Elem("bool", 1),
               Elem("date", 1000)}}

ResolveSamples == UNION {[1..n -> ResolveDocuments] : n \in 1..MaxResolve}

(***************************************************************************)
(* The columns parameter written from a schema: each column's name with    *)
(* the text of its type.                                                   *)
(***************************************************************************)
\* LogicalType::ToString for the types inference produces.
RECURSIVE TypeToString(_)
TypeToString(ty) == IF ty.id = "LIST" THEN TypeToString(ty.child) \o "[]" ELSE ty.id

\* The types whose text the parser is given.
ScalarTypes == {VARCHAR, BIGINT, DOUBLE, SQLBOOLEAN, TIMESTAMP}

ParsedTypes == ScalarTypes \cup {ListOf(t) : t \in ScalarTypes}
                 \cup {ListOf(ListOf(t)) : t \in ScalarTypes}

\* TransformStringToLogicalType: the type a type string names.
TransformStringToLogicalType(str) == CHOOSE ty \in ParsedTypes : TypeToString(ty) = str

\* The children of the columns struct in the simple form name -> type
\* string, in the order of the schema's columns.
ColumnsParameter(names, types) ==
    [i \in DOMAIN names |-> [name |-> names[i], val |-> TypeToString(types[i])]]

\* The loop of ParseSchemaFromColumnsParameter over children in the simple
\* form: the path of a column is its name.
SimpleColumns(struct_children) ==
    [i \in DOMAIN struct_children |->
        ColumnSpec(struct_children[i].name,
                   TransformStringToLogicalType(struct_children[i].val),
                   struct_children[i].name)]

\* The samples a schema is inferred from before it is bound again.
RebindSamples == Samples

(***************************************************************************)
(* Scans that carry the user's pipeline parameter.                         *)
(***************************************************************************)
\* pipeline := '[{"$match": {"b": 2}}]'
UserPipeline == JoinJsonArray(<<<<kvp("$match", QDoc(<<kvp("b", Elem("int32", 2))>>))>>>>)

\* The scans of OptimizerGets bound with the pipeline parameter.
PipelineGets ==
    {[g EXCEPT !.bind_data.pipeline_json = UserPipeline,
               !.named_parameters = SetParameter(@, "pipeline", UserPipeline)] :
        g \in {g \in OptimizerGets : g.bind_data # NoBindData}}

(***************************************************************************)
(* The filters a later pushdown call over the same scan is handed on top   *)
(* of the survivors of the earlier calls.                                  *)
(***************************************************************************)
MaxHandedIn == 3

LaterFilters == {<<f>> : f \in OtherExpressions}

(***************************************************************************)
(* The plans the walk of the rewriter is checked on: aggregates over a     *)
(* scan of the columns _id, a, b under a select list, a top-n, an order    *)
(* or a filter over their output; two such aggregates under a cross        *)
(* product; and a top-n over a scan.  The binder gives every operator its  *)
(* own table indexes.                                                      *)
(***************************************************************************)
AggregateGet(table_index) ==
    LogicalGet(table_index, "mongo_scan", ScanBind(ScanNames, EmptyString), <<1, 2, 3>>,
               NoFilters, NoParameters)

ColumnRef(table_index, c) ==
    BoundColumnRef(ScanNames[c], ColumnBinding(table_index, c), ScanTypes[c])

GroupLists(table_index) ==
    {<<>>, <<ColumnRef(table_index, 2)>>, <<ColumnRef(table_index, 2), ColumnRef(table_index, 3)>>,
     <<BoundCast(ColumnRef(table_index, 2))>>}

AggregateLists(table_index) ==
    {<<CountStar(FALSE)>>, <<CountStar(TRUE)>>,
     <<BoundAggregate("sum", <<ColumnRef(table_index, 3)>>, FALSE, FALSE, FALSE, BIGINT)>>,
     <<CountStar(FALSE),
       BoundAggregate("max", <<ColumnRef(table_index, 3)>>, FALSE, FALSE, FALSE, BIGINT)>>,
     <<BoundAggregate("median", <<ColumnRef(table_index, 3)>>, FALSE, FALSE, FALSE, BIGINT)>>}

Aggregates(group_index, aggregate_index, table_index) ==
    {LogicalAggregate(group_index, aggregate_index, groups, aggregates, grouping_sets, 0) :
        groups \in GroupLists(table_index), aggregates \in AggregateLists(table_index),
        grouping_sets \in {1, 2}}

\* The references to what an aggregate produces: its groups, then its
\* aggregates.
OutputRefs(aggr) ==
    [i \in DOMAIN aggr.groups |->
        BoundColumnRef("g", ColumnBinding(aggr.group_index, i), BIGINT)]
    \o [j \in DOMAIN aggr.expressions |->
        BoundColumnRef("x", ColumnBinding(aggr.aggregate_index, j), BIGINT)]

\* The operators over the aggregates: the select list alone, with casts,
\* or over a top-n, an order or a filter on the aggregates' output.
Uppers(refs) ==
    LET last == refs[Len(refs)]
        select == LogicalProjection(9, refs)
    IN  {<<select>>,
         <<LogicalProjection(9, [i \in DOMAIN refs |-> BoundCast(refs[i])])>>,
         <<select, LogicalTopN(<<BoundOrderByNode("DESCENDING", last)>>, 1, 0)>>,
         <<select, LogicalOrder(<<BoundOrderByNode("ASCENDING", refs[1]),
                                  BoundOrderByNode("DESCENDING", BoundCast(last))>>)>>,
         <<select, LogicalFilter(<<BoundComparison("COMPARE_GREATERTHAN", last,
                                                   BoundConstant(Val(BIGINT, 1)))>>)>>}

\* The aggregates of the second child of the cross product.
SecondAggregates ==
    {aggr \in Aggregates(6, 7, 5) :
        /\ aggr.grouping_sets = 1
        /\ Len(aggr.groups) <= 1
        /\ aggr.expressions[1].function_name \in {"count_star", "sum"}}

RewritePlans ==
    UNION {{upper \o <<aggr, get>> : upper \in Uppers(OutputRefs(aggr))} :
              aggr \in Aggregates(2, 3, 1), get \in {AggregateGet(1), OtherGet}}
    \cup UNION {{upper \o <<LogicalCrossProduct(<<second, AggregateGet(5)>>), first,
                            AggregateGet(1)>> :
                    upper \in Uppers(OutputRefs(first) \o OutputRefs(second))} :
                   first \in Aggregates(2, 3, 1), second \in SecondAggregates}
    \cup UNION {{<<topn, get>> : topn \in TopNs(ScanRefs(get, NamesOf(get), {}))} :
                   get \in {AggregateGet(1), OtherGet}}

(***************************************************************************)
(* State.                                                                  *)
(***************************************************************************)
VARIABLES
    doc,                         \* the document a row is materialized from
    column_names,                \* MongoScanData::column_names
    column_types,                \* MongoScanData::column_types
    column_name_to_mongo_path,   \* MongoScanData::column_name_to_mongo_path
    schema_mode,                 \* MongoScanData::schema_mode
    has_explicit_schema,         \* MongoScanData::has_explicit_schema
    output,                      \* the row of the output chunk, one slot a column
    flatten_ret,                 \* outcome of FlattenDocument: none, true, false, throw
    flatten_err,                 \* the exception FlattenDocument raised
    validate_ret,                \* outcome of ValidateDocumentSchema
    table_filters,               \* the filter set handed to the translation
    mongo_filter,                \* what ConvertFiltersToMongoQuery returned
    single_filter_doc,           \* what the table function's ConvertSingleFilterToMongo returned
    plan_in,                     \* the plan handed to the optimizer extension
    plan,                        \* the plan as it is now
    optimized,                   \* the optimizer extension has run: no, yes, threw
    collection,                  \* the documents of the collection, in natural order
    state,                       \* MongoScanState of the scan's thread
    chunks,                      \* the chunks MongoScanFunction has emitted
    expressions,                 \* the filter expressions the engine offers for pushdown
    remaining,                   \* the expressions left in the vector after the pushdown
    complex_filter_expr,         \* MongoScanData::complex_filter_expr once the pushdown ran
    visit,                       \* the nodes RewriteMongoPlans has still to visit, next first
    binding_rules,               \* the binding rules RewriteMongoPlans has collected
    catalog,                     \* MongoCatalog, with its schema entries and generators
    threads,                     \* the call each thread is in and the step it is at
    locks                        \* the thread that holds each mutex, 0 when it is free

flattenVars == <<doc, column_names, column_types, column_name_to_mongo_path, schema_mode,
                 has_explicit_schema, output, flatten_ret, flatten_err, validate_ret>>

pushdownVars == <<table_filters, mongo_filter, single_filter_doc>>

scanVars == <<plan_in, plan, optimized, collection, state, chunks>>

exprVars == <<expressions, remaining, complex_filter_expr>>

rewriteVars == <<visit, binding_rules>>

catalogVars == <<catalog, threads, locks>>

vars == <<flattenVars, pushdownVars, scanVars, exprVars, rewriteVars, catalogVars>>

NotDone == [done |-> FALSE]

Done(value) == [done |-> TRUE, value |-> value]

NotInitialized == [initialized |-> FALSE]

\* Nothing has been translated, planned or scanned.
IdlePushdown ==
    /\ table_filters = NoFilters
    /\ mongo_filter = NotDone
    /\ single_filter_doc = NotDone

IdleScan ==
    /\ plan_in = <<>>
    /\ plan = <<>>
    /\ optimized = "no"
    /\ collection = <<>>
    /\ state = NotInitialized
    /\ chunks = <<>>

IdleExpr ==
    /\ expressions = <<>>
    /\ remaining = <<>>
    /\ complex_filter_expr = NotDone

IdleRewrite ==
    /\ visit = <<>>
    /\ binding_rules = <<>>

IdleCatalog ==
    /\ catalog = MongoCatalog("")
    /\ threads = [t \in Threads |-> IdleThread]
    /\ locks = [l \in LockNames |-> 0]

IdleFlatten ==
    /\ schema_mode = "PERMISSIVE"
    /\ has_explicit_schema = FALSE
    /\ output = <<>>
    /\ flatten_ret = "none"
    /\ flatten_err = NoError
    /\ validate_ret = "none"

SetSchema(schema) ==
    /\ column_names = schema.column_names
    /\ column_types = schema.column_types
    /\ column_name_to_mongo_path = schema.column_name_to_mongo_path

\* Bind: the schema comes from the columns parameter, or else from a sample.
InitFlatten ==
    /\ IdleExpr
    /\ IdleRewrite
    /\ IdleCatalog
    /\ doc \in Documents
    /\ schema_mode \in SchemaModes
    /\ \/ /\ has_explicit_schema = TRUE
          /\ \E cols \in ExplicitColumns : SetSchema(ParseSchemaFromColumnsParameter(cols))
       \/ /\ has_explicit_schema = FALSE
          /\ \E sample \in Samples : SetSchema(InferSchemaFromDocuments(sample))
    /\ output = [i \in DOMAIN column_names |-> Unset]
    /\ flatten_ret = "none"
    /\ flatten_err = NoError
    /\ validate_ret = "none"
    /\ IdlePushdown
    /\ IdleScan

\* One call of FlattenDocument for the document, over the whole schema.
Flatten ==
    /\ flatten_ret = "none"
    /\ LET r == FlattenDocument(doc, column_names, column_types, output,
                                column_name_to_mongo_path, schema_mode, has_explicit_schema)
       IN  /\ output' = r.out
           /\ flatten_ret' = r.ret
           /\ flatten_err' = r.err
    /\ UNCHANGED <<catalogVars, rewriteVars, exprVars, doc, column_names, column_types, column_name_to_mongo_path, schema_mode,
                   has_explicit_schema, validate_ret, pushdownVars, scanVars>>

\* One call of ValidateDocumentSchema for the document, over the whole schema.
Validate ==
    /\ validate_ret = "none"
    /\ has_explicit_schema
    /\ validate_ret' = ValidateDocumentSchema(doc, column_names, column_types,
                                             column_name_to_mongo_path, schema_mode).ret
    /\ UNCHANGED <<catalogVars, rewriteVars, exprVars, doc, column_names, column_types, column_name_to_mongo_path, schema_mode,
                   has_explicit_schema, output, flatten_ret, flatten_err, pushdownVars,
                   scanVars>>

NextFlatten == Flatten \/ Validate

SpecFlatten == InitFlatten /\ [][NextFlatten]_vars

(***************************************************************************)
(* The translation of a filter set.                                        *)
(***************************************************************************)
InitPushdown ==
    /\ IdleExpr
    /\ IdleRewrite
    /\ IdleCatalog
    /\ doc \in PushdownDocuments
    /\ column_names = PushdownNames
    /\ column_types = PushdownTypes
    /\ column_name_to_mongo_path \in PushdownPaths
    /\ table_filters \in FilterSets
    /\ mongo_filter = NotDone
    /\ single_filter_doc = NotDone
    /\ IdleFlatten
    /\ IdleScan

MongoPath(column_name) ==
    IF column_name \in DOMAIN column_name_to_mongo_path
    THEN column_name_to_mongo_path[column_name] ELSE column_name

\* One call of ConvertFiltersToMongoQuery of the filter pushdown module.
ConvertFilters ==
    /\ table_filters # NoFilters
    /\ mongo_filter = NotDone
    /\ mongo_filter' = Done(ConvertFiltersToMongoQuery(table_filters, column_names, column_types,
                                                       column_name_to_mongo_path))
    /\ UNCHANGED <<catalogVars, rewriteVars, exprVars, table_filters, single_filter_doc, flattenVars, scanVars>>

\* One call of the table function's ConvertSingleFilterToMongo, for the
\* filter of one column of the set.
ConvertSingleTableFunction ==
    /\ single_filter_doc = NotDone
    /\ \E col_idx \in DOMAIN table_filters :
          single_filter_doc' =
              [done |-> TRUE, col_idx |-> col_idx,
               value |-> TableFunctionConvertSingleFilterToMongo(
                             table_filters[col_idx], MongoPath(column_names[col_idx]),
                             column_types[col_idx])]
    /\ UNCHANGED <<catalogVars, rewriteVars, exprVars, table_filters, mongo_filter, flattenVars, scanVars>>

NextPushdown == ConvertFilters \/ ConvertSingleTableFunction

SpecPushdown == InitPushdown /\ [][NextPushdown]_vars

(***************************************************************************)
(* A query: the optimizer extension runs over the plan, then the scan of   *)
(* the plan is initialised and its function is called until it emits an    *)
(* empty chunk.                                                            *)
(***************************************************************************)
IdleSchema ==
    /\ doc = [k \in {} |-> Missing]
    /\ column_names = ScanNames
    /\ column_types = ScanTypes
    /\ column_name_to_mongo_path = ScanPaths

\* SELECT ... ORDER BY ... LIMIT, a top-n over the select list or over the
\* scan itself, or SELECT COUNT(*).
InitOptimizer ==
    /\ IdleExpr
    /\ IdleRewrite
    /\ IdleCatalog
    /\ \E get \in OptimizerGets :
          \/ \E select \in SelectLists(get, NamesOf(get)) :
                \E topn \in TopNs(SortKeys(2, select)) :
                   plan_in = <<topn, LogicalProjection(2, select), get>>
          \/ \E topn \in TopNs(ScanRefs(get, NamesOf(get), {})) : plan_in = <<topn, get>>
          \/ plan_in \in CountStarPlans({get})
    /\ plan = plan_in
    /\ optimized = "no"
    /\ collection = <<>>
    /\ state = NotInitialized
    /\ chunks = <<>>
    /\ IdleSchema
    /\ IdleFlatten
    /\ IdlePushdown

InitScan ==
    /\ IdleExpr
    /\ IdleRewrite
    /\ IdleCatalog
    /\ plan_in \in ScanPlans
    /\ plan = plan_in
    /\ optimized = "no"
    /\ collection \in Collections
    /\ state = NotInitialized
    /\ chunks = <<>>
    /\ IdleSchema
    /\ IdleFlatten
    /\ IdlePushdown

\* One call of MongoOptimizerOptimize.  An index beyond column_names makes
\* the checked vector access throw.
Optimize ==
    /\ optimized = "no"
    /\ plan # <<>>
    /\ \E r \in {MongoOptimizerOptimize(plan)} :
           IF r.out_of_bounds
           THEN optimized' = "threw" /\ plan' = plan
           ELSE optimized' = "yes" /\ plan' = r.plan
    /\ UNCHANGED <<catalogVars, rewriteVars, exprVars, plan_in, collection, state, chunks, flattenVars, pushdownVars>>

\* The scan of the plan.
ScanOf(p) == p[Len(p)]

\* The filter set the engine hands to init_local: the table filters of the
\* scan, keyed by the positions of their columns in the column-id list.
TableFilterSet(get) ==
    [pos \in {p \in DOMAIN get.column_ids : get.column_ids[p] \in DOMAIN get.table_filters}
        |-> get.table_filters[get.column_ids[pos]]]

\* The input of init_local: input.op is the limit right above the scan.
TableFunctionInitInput(p) ==
    [column_ids |-> ScanOf(p).column_ids,
     filters |-> TableFilterSet(ScanOf(p)),
     op |-> IF Len(p) > 1 /\ p[Len(p) - 1].type = "LOGICAL_LIMIT"
            THEN LimitOp("LIMIT", p[Len(p) - 1].limit) ELSE NoOp]

\* One call of MongoScanInitLocal, which opens the cursor.
InitLocal ==
    /\ optimized = "yes"
    /\ state = NotInitialized
    /\ IsMongoScan(ScanOf(plan))
    /\ \E r \in {MongoScanInitLocal(ScanOf(plan).bind_data, TableFunctionInitInput(plan))} :
        \E threw \in {FindThrows(r.query_filter)} :
           state' = [initialized |-> TRUE,
                     threw |-> threw,
                     finished |-> FALSE,
                     cursor |-> IF threw THEN <<>>
                                ELSE FindResult(collection, r.query_filter,
                                                r.projection_document, r.limit),
                     filter_query |-> r.filter_query,
                     requested_column_indices |-> r.requested_column_indices,
                     requested_column_names |-> r.requested_column_names,
                     requested_column_types |-> r.requested_column_types,
                     projection_document |-> r.projection_document,
                     limit |-> r.limit,
                     query_filter |-> r.query_filter,
                     filters_pushed_down |-> r.filters_pushed_down]
    /\ UNCHANGED <<catalogVars, rewriteVars, exprVars, plan_in, plan, optimized, collection, chunks, flattenVars, pushdownVars>>

\* One call of MongoScanFunction on the initialised local state.
CallScanFunction ==
    /\ state # NotInitialized
    /\ ~state.threw
    /\ \E r \in {MongoScanFunction(state, ScanOf(plan).bind_data, Len(ScanOf(plan).column_ids))} :
           /\ state' = r.state
           /\ chunks' = Append(chunks, r.chunk)
    /\ UNCHANGED <<catalogVars, rewriteVars, exprVars, plan_in, plan, optimized, collection, flattenVars, pushdownVars>>

\* The engine calls the scan function until a chunk is empty.
ScanFunction ==
    /\ IF chunks = <<>> THEN TRUE ELSE chunks[Len(chunks)] # <<>>
    /\ CallScanFunction

NextOptimizer == Optimize

SpecOptimizer == InitOptimizer /\ [][NextOptimizer]_vars

NextScan == Optimize \/ InitLocal \/ ScanFunction

SpecScan == InitScan /\ [][NextScan]_vars

(***************************************************************************)
(* One worker's scan: the scan function is called again and again, also    *)
(* after the cursor has drained.                                           *)
(***************************************************************************)
InitCursor ==
    /\ IdleExpr
    /\ IdleRewrite
    /\ IdleCatalog
    /\ plan_in \in CursorPlans
    /\ plan = plan_in
    /\ optimized = "no"
    /\ collection \in CursorCollections
    /\ state = NotInitialized
    /\ chunks = <<>>
    /\ IdleSchema
    /\ IdleFlatten
    /\ IdlePushdown

NextCall ==
    /\ Len(chunks) < MaxCalls
    /\ CallScanFunction

NextCursor == Optimize \/ InitLocal \/ NextCall

SpecCursor == InitCursor /\ [][NextCursor]_vars


(***************************************************************************)
(* The materialization of a LIST column from an array.                     *)
(***************************************************************************)
\* Bind with a columns parameter that declares a as a LIST; the document
\* holds an array under a.
InitList ==
    /\ IdleExpr
    /\ IdleRewrite
    /\ IdleCatalog
    /\ \E array \in NestedArrays(MaxArrayDepth) :
          doc = MakeDoc(Elem("oid", 1), ArrayElem(array), Missing, Missing)
    /\ schema_mode \in SchemaModes
    /\ has_explicit_schema = TRUE
    /\ \E list_type \in ListTypes :
          SetSchema(ParseSchemaFromColumnsParameter(<<ColumnSpec("a", list_type, "a")>>))
    /\ output = [i \in DOMAIN column_names |-> Unset]
    /\ flatten_ret = "none"
    /\ flatten_err = NoError
    /\ validate_ret = "none"
    /\ IdlePushdown
    /\ IdleScan

SpecList == InitList /\ [][NextFlatten]_vars

(***************************************************************************)
(* The translation of filters on string columns.                           *)
(***************************************************************************)
InitObjectId ==
    /\ IdleExpr
    /\ IdleRewrite
    /\ IdleCatalog
    /\ doc = [k \in {} |-> Missing]
    /\ column_names = ObjectIdNames
    /\ column_types = ObjectIdTypes
    /\ column_name_to_mongo_path = ObjectIdPaths
    /\ \E fid \in StringFilters \cup {NoFilter}, fa \in StructFilters \cup {NoFilter},
          fref \in StringFilters \cup {NoFilter}, fs \in StringFilters \cup {NoFilter} :
          /\ table_filters = FilterMap(<<fid, fa, fref, fs>>)
          /\ table_filters # NoFilters
    /\ mongo_filter = NotDone
    /\ single_filter_doc = NotDone
    /\ IdleFlatten
    /\ IdleScan

SpecObjectId == InitObjectId /\ [][NextPushdown]_vars

(***************************************************************************)
(* The pushdown of the filter expressions of a scan.                       *)
(***************************************************************************)
InitExpr ==
    /\ doc = [k \in {} |-> Missing]
    /\ column_names = ExprNames
    /\ column_types = ExprTypes
    /\ column_name_to_mongo_path = ExprPaths
    /\ expressions \in ExpressionVectors
    /\ remaining = expressions
    /\ complex_filter_expr = NotDone
    /\ IdleRewrite
    /\ IdleCatalog
    /\ IdleFlatten
    /\ IdlePushdown
    /\ IdleScan

\* One call of MongoPushdownComplexFilter for the scan with table index 1.
PushdownComplexFilter ==
    /\ complex_filter_expr = NotDone
    /\ \E r \in {MongoPushdownComplexFilter(expressions, column_names,
                                             column_name_to_mongo_path, 1)} :
           /\ remaining' = r.filters
           /\ complex_filter_expr' = Done(IF r.has_complex_filter THEN r.complex_filter_expr ELSE <<>>)
    /\ UNCHANGED <<catalogVars, rewriteVars, expressions, flattenVars, pushdownVars, scanVars>>

NextExpr == PushdownComplexFilter

SpecExpr == InitExpr /\ [][NextExpr]_vars

\* A later call of MongoPushdownComplexFilter on the same bind state: the
\* engine hands in the filters that survived plus further ones; the stored
\* expression is assigned only when this call converted a filter
\* (lines 499-502).
PushdownComplexFilterAgain ==
    /\ complex_filter_expr # NotDone
    /\ Len(expressions) < MaxHandedIn
    /\ \E more \in LaterFilters :
       \E r \in {MongoPushdownComplexFilter(remaining \o more, column_names,
                                             column_name_to_mongo_path, 1)} :
           /\ expressions' = expressions \o more
           /\ remaining' = r.filters
           /\ complex_filter_expr' = Done(IF r.has_complex_filter THEN r.complex_filter_expr
                                          ELSE complex_filter_expr.value)
    /\ UNCHANGED <<catalogVars, rewriteVars, flattenVars, pushdownVars, scanVars>>

NextExprCalls == PushdownComplexFilter \/ PushdownComplexFilterAgain

SpecExprCalls == InitExpr /\ [][NextExprCalls]_vars

(***************************************************************************)
(* The projection sent with the find of a scan over nested paths.          *)
(***************************************************************************)
InitProjection ==
    /\ IdleExpr
    /\ IdleRewrite
    /\ IdleCatalog
    /\ \E p \in ProjectionPlans :
          /\ \A i \in DOMAIN ScanOf(p).column_ids :
                ScanOf(p).column_ids[i] <= Len(ScanOf(p).bind_data.column_names)
          /\ plan_in = p
    /\ plan = plan_in
    /\ optimized = "no"
    /\ collection = <<>>
    /\ state = NotInitialized
    /\ chunks = <<>>
    /\ IdleSchema
    /\ IdleFlatten
    /\ IdlePushdown

SpecProjection == InitProjection /\ [][NextCursor]_vars

(***************************************************************************)
(* Bind by inference: the schema is inferred from the sampled documents of *)
(* the collection, and a document of it is materialized.                   *)
(***************************************************************************)
InitInfer ==
    /\ IdleExpr
    /\ IdleRewrite
    /\ IdleCatalog
    /\ collection \in ResolveSamples
    /\ doc = collection[1]
    /\ schema_mode = "PERMISSIVE"
    /\ has_explicit_schema = FALSE
    /\ SetSchema(InferSchemaFromDocuments(collection))
    /\ output = [i \in DOMAIN column_names |-> Unset]
    /\ flatten_ret = "none"
    /\ flatten_err = NoError
    /\ validate_ret = "none"
    /\ plan_in = <<>>
    /\ plan = <<>>
    /\ optimized = "no"
    /\ state = NotInitialized
    /\ chunks = <<>>
    /\ IdlePushdown

NextInfer == Flatten

SpecInfer == InitInfer /\ [][NextInfer]_vars

(***************************************************************************)
(* Binding by inference, then binding again with the inferred schema given *)
(* as the columns parameter.                                               *)
(***************************************************************************)
InitRebind ==
    /\ IdleExpr
    /\ IdleRewrite
    /\ IdleCatalog
    /\ collection \in RebindSamples
    /\ doc \in SampleDocuments
    /\ schema_mode = "PERMISSIVE"
    /\ has_explicit_schema = FALSE
    /\ SetSchema(InferSchemaFromDocuments(collection))
    /\ output = [i \in DOMAIN column_names |-> Unset]
    /\ flatten_ret = "none"
    /\ flatten_err = NoError
    /\ validate_ret = "none"
    /\ plan_in = <<>>
    /\ plan = <<>>
    /\ optimized = "no"
    /\ state = NotInitialized
    /\ chunks = <<>>
    /\ IdlePushdown

\* The bind with the columns parameter written from the current schema.
Rebind ==
    /\ ~has_explicit_schema
    /\ flatten_ret = "none"
    /\ \E r \in {ParseSchemaFromColumnsParameter(
                    SimpleColumns(ColumnsParameter(column_names, column_types)))} :
          /\ column_names' = r.column_names
          /\ column_types' = r.column_types
          /\ column_name_to_mongo_path' = r.column_name_to_mongo_path
          /\ output' = [i \in DOMAIN r.column_names |-> Unset]
    /\ has_explicit_schema' = TRUE
    /\ UNCHANGED <<catalogVars, rewriteVars, exprVars, doc, schema_mode, flatten_ret, flatten_err, validate_ret,
                   pushdownVars, scanVars>>

NextRebind == Rebind \/ Flatten

SpecRebind == InitRebind /\ [][NextRebind]_vars

(***************************************************************************)
(* The rewriter over scans bound with the pipeline parameter.              *)
(***************************************************************************)
InitPipeline ==
    /\ IdleExpr
    /\ IdleRewrite
    /\ IdleCatalog
    /\ \E get \in PipelineGets :
          \/ \E select \in SelectLists(get, NamesOf(get)) :
                \E topn \in TopNs(SortKeys(2, select)) :
                   plan_in = <<topn, LogicalProjection(2, select), get>>
          \/ \E topn \in TopNs(ScanRefs(get, NamesOf(get), {})) : plan_in = <<topn, get>>
          \/ plan_in \in CountStarPlans({get})
    /\ plan = plan_in
    /\ optimized = "no"
    /\ collection = <<>>
    /\ state = NotInitialized
    /\ chunks = <<>>
    /\ IdleSchema
    /\ IdleFlatten
    /\ IdlePushdown

SpecPipeline == InitPipeline /\ [][NextOptimizer]_vars

(***************************************************************************)
(* The optimizer extension, one node of the plan at a time.                *)
(***************************************************************************)
InitRewrite ==
    /\ IdleExpr
    /\ IdleCatalog
    /\ plan_in \in RewritePlans
    /\ plan = plan_in
    /\ optimized = "no"
    /\ visit = <<<<1>>>>
    /\ binding_rules = <<>>
    /\ collection = <<>>
    /\ state = NotInitialized
    /\ chunks = <<>>
    /\ IdleSchema
    /\ IdleFlatten
    /\ IdlePushdown

\* One activation of RewriteMongoPlans at the next node to visit: the
\* top-n rewrite, which makes the walk run at the node again; else the
\* aggregate rewrite, which ends the walk of the node; else the node's
\* children are visited.
VisitNode ==
    /\ optimized = "no"
    /\ visit # <<>>
    /\ LET path == Head(visit)
           Attempt(chain, k) ==
               LET Outcome(t) ==
                       IF t.fired
                       THEN /\ plan' = WithChain(plan, path, t.plan)
                            /\ UNCHANGED <<visit, binding_rules, optimized>>
                       ELSE \E a \in {RewriteMongoAggregate(t.plan, k, binding_rules)} :
                               /\ plan' = WithChain(plan, path, a.plan)
                               /\ binding_rules' = a.binding_rules
                               /\ optimized' = IF a.out_of_bounds THEN "threw" ELSE optimized
                               /\ visit' = IF a.fired \/ a.out_of_bounds THEN Tail(visit)
                                           ELSE ChildrenOf(plan', path) \o Tail(visit)
               IN  Outcome(RewriteMongoTopN(chain, k))
       IN  Attempt(ChainAt(plan, path), PositionOf(path))
    /\ UNCHANGED <<catalogVars, exprVars, plan_in, collection, state, chunks, flattenVars, pushdownVars>>

\* The end of MongoOptimizerOptimize: the rules collected are applied to
\* the whole plan.
ApplyBindingRules ==
    /\ optimized = "no"
    /\ visit = <<>>
    /\ plan' = IF binding_rules # <<>> /\ plan # <<>>
               THEN ApplyBindingRulesToOperator(plan, binding_rules) ELSE plan
    /\ optimized' = "yes"
    /\ UNCHANGED <<catalogVars, exprVars, rewriteVars, plan_in, collection, state, chunks, flattenVars,
                   pushdownVars>>

NextRewrite == VisitNode \/ ApplyBindingRules

SpecRewrite == InitRewrite /\ [][NextRewrite]_vars

(***************************************************************************)
(* Threads calling into the catalog.  A step is what a thread does between *)
(* two points at which it can block or another thread can act: a critical  *)
(* section that blocks on nothing is one step, and a step that needs a     *)
(* mutex another thread holds is not enabled.                              *)
(***************************************************************************)
IdleQuery ==
    /\ IdleExpr
    /\ IdleRewrite
    /\ IdleSchema
    /\ IdleFlatten
    /\ IdlePushdown
    /\ IdleScan

\* A catalog just attached, with or without a database name.
InitCatalog ==
    /\ catalog \in {MongoCatalog(""), MongoCatalog(EntrySchema)}
    /\ threads = [t \in Threads |-> IdleThread]
    /\ locks = [l \in LockNames |-> 0]
    /\ IdleQuery

\* A catalog whose schemas have been scanned and whose entries have not
\* been loaded.
InitScanned ==
    /\ \E cat \in {MongoCatalog(""), MongoCatalog(EntrySchema)} :
          catalog = [SetDefaultGenerator(ScanCreated(cat), EntrySchema, EntrySchema)
                        EXCEPT !.schemas_scanned = TRUE]
    /\ threads = [t \in Threads |-> IdleThread]
    /\ locks = [l \in LockNames |-> 0]
    /\ IdleQuery

Free(l) == locks[l] = 0

At(t, pc) == [threads EXCEPT ![t].pc = pc]

Returned(t, result) == [threads EXCEPT ![t].pc = "idle", ![t].result = result]

\* A thread enters a call.  An entry is looked up in a schema the thread
\* got from the catalog.
StartCall(t) ==
    /\ threads[t].pc = "idle"
    /\ threads[t].operations < MaxOperations
    /\ \E call \in Calls :
          /\ call.op = "LookupEntry" => EntrySchema \in DOMAIN catalog.schemas
          /\ threads' = [threads EXCEPT ![t] =
                            [op |-> call.op, arg |-> call.arg, pc |-> call.pc,
                             operations |-> @.operations + 1, result |-> NoResult,
                             generator |-> NoGenerator]]
    /\ UNCHANGED <<catalog, locks, flattenVars, pushdownVars, scanVars, exprVars, rewriteVars>>

\* The end of ScanSchemas: back in LookupSchema, or at the caller.
ScanEnd(t, names) ==
    IF threads[t].op = "LookupSchema" THEN At(t, "lookup") ELSE Returned(t, SchemasResult(names))

\* One step of MongoCatalog::ScanSchemas: the test and the setting of
\* schemas_scanned under schemas_lock; the listing, which throws when the
\* server cannot be reached; the creation of the schemas; the generator of
\* the database's schema.
ScanSchemas(t) ==
    /\ \/ /\ threads[t].pc = "scan_check"
          /\ Free("schemas_lock")
          /\ IF catalog.schemas_scanned
             THEN /\ threads' = ScanEnd(t, DOMAIN catalog.schemas)
                  /\ catalog' = catalog
             ELSE /\ catalog' = [catalog EXCEPT !.schemas_scanned = TRUE]
                  /\ threads' = At(t, "scan_list")
       \/ /\ threads[t].pc = "scan_list"
          /\ \E reached \in BOOLEAN :
                threads' = IF reached THEN At(t, "scan_create")
                           ELSE Returned(t, Raised("listing failed"))
          /\ catalog' = catalog
       \/ /\ threads[t].pc = "scan_create"
          /\ Free("schemas_lock")
          /\ catalog' = ScanCreated(catalog)
          /\ threads' = At(t, "scan_generator")
       \/ /\ threads[t].pc = "scan_generator"
          /\ Free("entry_lock")
          /\ catalog' = SetDefaultGenerator(catalog, EntrySchema, EntrySchema)
          /\ threads' = ScanEnd(t, ScannedNames(catalog))
    /\ UNCHANGED <<locks, flattenVars, pushdownVars, scanVars, exprVars, rewriteVars>>

\* One step of MongoCatalog::LookupSchema: the read of schemas_scanned
\* without a lock; the searches of the map; the creation of a missing
\* schema, which another thread may have created since; the generator of
\* that schema.
LookupSchema(t) ==
    /\ \/ /\ threads[t].pc = "lookup_start"
          /\ threads' = At(t, IF catalog.schemas_scanned THEN "lookup" ELSE "scan_check")
          /\ catalog' = catalog
       \/ /\ threads[t].pc = "lookup"
          /\ Free("schemas_lock")
          /\ LET Search(schema_name, database_name, schemas) ==
                     IF database_name # "" /\ database_name \in DOMAIN schemas
                     THEN /\ threads' = Returned(t, SchemaResult(database_name))
                          /\ catalog' = catalog
                     ELSE IF schema_name \in DOMAIN schemas
                     THEN /\ threads' = Returned(t, SchemaResult(schema_name))
                          /\ catalog' = catalog
                     ELSE IF database_name = "" \/ schema_name = database_name
                     THEN /\ threads' = At(t, "lookup_create")
                          /\ catalog' = catalog
                     ELSE /\ threads' = Returned(t, Raised("schema not found"))
                          /\ catalog' = catalog
             IN  Search(threads[t].arg, catalog.database_name, catalog.schemas)
       \/ /\ threads[t].pc = "lookup_create"
          /\ Free("schemas_lock")
          /\ catalog' = CreateSchema(catalog, threads[t].arg)
          /\ threads' = At(t, "lookup_generator")
       \/ /\ threads[t].pc = "lookup_generator"
          /\ threads[t].arg = EntrySchema => Free("entry_lock")
          /\ catalog' = SetDefaultGenerator(catalog, threads[t].arg, threads[t].arg)
          /\ threads' = Returned(t, SchemaResult(threads[t].arg))
    /\ UNCHANGED <<locks, flattenVars, pushdownVars, scanVars, exprVars, rewriteVars>>

\* EnsureCollectionsLoaded of generator g when the listing is over: the
\* names are kept and cached when the server was reached.
CollectionsListed(cat, g, reached) ==
    IF reached /\ RemoteCollections(cat.generators[g].database_name) # {}
    THEN [cat EXCEPT
            !.generators[g].collection_names = RemoteCollections(cat.generators[g].database_name),
            !.collection_cache = @ \cup {cat.generators[g].database_name}]
    ELSE cat

\* One step of MongoSchemaEntry::TryLoadEntries as LookupEntry calls it:
\* the tests without a lock; load_lock and the call of the generator, which
\* lists the collections unless it has; the listing; the storing of the
\* names under entry_lock.  A generator that was destroyed in the meantime
\* is a dangling pointer: the call crashes or goes on with what it finds.
TryLoadEntries(t) ==
    /\ \/ /\ threads[t].pc = "entry_start"
          /\ LET Test(entry) ==
                     IF entry.is_loaded
                     THEN threads' = At(t, "entry_lock") /\ catalog' = catalog
                     ELSE IF entry.default_generator = NoGenerator
                     THEN /\ threads' = At(t, "entry_lock")
                          /\ catalog' = [catalog EXCEPT !.schemas[EntrySchema].is_loaded = TRUE]
                     ELSE threads' = At(t, "load_lock") /\ catalog' = catalog
             IN  Test(catalog.schemas[EntrySchema])
          /\ locks' = locks
       \/ /\ threads[t].pc = "load_lock"
          /\ Free("load_lock")
          /\ LET Call(entry, g) ==
                     IF entry.is_loaded
                     THEN /\ threads' = At(t, "entry_lock")
                          /\ UNCHANGED <<catalog, locks>>
                     ELSE /\ locks' = [locks EXCEPT !["load_lock"] = t]
                          /\ IF catalog.generators[g].collections_loaded
                             THEN /\ threads' = [At(t, "load_store") EXCEPT ![t].generator = g]
                                  /\ catalog' = catalog
                             ELSE /\ threads' = [At(t, "load_names") EXCEPT ![t].generator = g]
                                  /\ catalog' = [catalog EXCEPT
                                                   !.generators[g].collections_loaded = TRUE]
             IN  Call(catalog.schemas[EntrySchema],
                      catalog.schemas[EntrySchema].default_generator)
       \/ /\ threads[t].pc = "load_names"
          /\ IF catalog.generators[threads[t].generator].alive
             THEN /\ \E reached \in BOOLEAN :
                        /\ reached => Free("collection_cache_lock")
                        /\ catalog' = CollectionsListed(catalog, threads[t].generator, reached)
                  /\ threads' = At(t, "load_store")
                  /\ locks' = locks
             ELSE \/ /\ threads' = Returned(t, Raised("crashed"))
                     /\ locks' = [locks EXCEPT !["load_lock"] = 0]
                     /\ catalog' = catalog
                  \/ /\ threads' = At(t, "load_store")
                     /\ UNCHANGED <<catalog, locks>>
       \/ /\ threads[t].pc = "load_store"
          /\ Free("entry_lock")
          /\ \E names \in IF catalog.generators[threads[t].generator].alive
                          THEN {catalog.generators[threads[t].generator].collection_names}
                          ELSE SUBSET {"orders", "garbage"} :
                catalog' = [catalog EXCEPT
                              !.schemas[EntrySchema].loaded_collection_names = names,
                              !.schemas[EntrySchema].is_loaded = TRUE]
          /\ locks' = [locks EXCEPT !["load_lock"] = 0]
          /\ threads' = At(t, "entry_lock")
    /\ UNCHANGED <<flattenVars, pushdownVars, scanVars, exprVars, rewriteVars>>

\* The key of a view in the view-info cache.
ViewKey(database_name, collection_name) == database_name \o ":" \o collection_name

\* One step of MongoSchemaEntry::LookupEntry after the entries were loaded:
\* entry_lock, the search of the views and the call of the generator, which
\* lists the collections unless it has; the listing; the search of the
\* view-info cache; the binding of the view, which samples the collection.
\* entry_lock is held until the call returns or throws.
LookupEntry(t) ==
    /\ \/ /\ threads[t].pc = "entry_lock"
          /\ Free("entry_lock")
          /\ LET Call(entry, g) ==
                     IF threads[t].arg \in entry.views
                     THEN /\ threads' = Returned(t, EntryResult(TRUE))
                          /\ UNCHANGED <<catalog, locks>>
                     ELSE IF g = NoGenerator
                     THEN /\ threads' = Returned(t, EntryResult(FALSE))
                          /\ UNCHANGED <<catalog, locks>>
                     ELSE /\ locks' = [locks EXCEPT !["entry_lock"] = t]
                          /\ IF catalog.generators[g].collections_loaded
                             THEN /\ threads' = [At(t, "entry_create") EXCEPT ![t].generator = g]
                                  /\ catalog' = catalog
                             ELSE /\ threads' = [At(t, "entry_names") EXCEPT ![t].generator = g]
                                  /\ catalog' = [catalog EXCEPT
                                                   !.generators[g].collections_loaded = TRUE]
             IN  Call(catalog.schemas[EntrySchema],
                      catalog.schemas[EntrySchema].default_generator)
       \/ /\ threads[t].pc = "entry_names"
          /\ \E reached \in BOOLEAN :
                /\ reached => Free("collection_cache_lock")
                /\ catalog' = CollectionsListed(catalog, threads[t].generator, reached)
          /\ threads' = At(t, "entry_create")
          /\ locks' = locks
       \/ /\ threads[t].pc = "entry_create"
          /\ LET Create(generator) ==
                     IF threads[t].arg \notin generator.collection_names
                     THEN /\ threads' = Returned(t, EntryResult(FALSE))
                          /\ locks' = [locks EXCEPT !["entry_lock"] = 0]
                          /\ catalog' = catalog
                     ELSE /\ Free("view_info_cache_lock")
                          /\ IF ViewKey(generator.database_name, threads[t].arg)
                                   \in catalog.view_info_cache
                             THEN /\ threads' = Returned(t, EntryResult(TRUE))
                                  /\ locks' = [locks EXCEPT !["entry_lock"] = 0]
                                  /\ catalog' = [catalog EXCEPT !.schemas[EntrySchema].views =
                                                                   @ \cup {threads[t].arg}]
                             ELSE /\ threads' = At(t, "bind_view")
                                  /\ UNCHANGED <<catalog, locks>>
             IN  Create(catalog.generators[threads[t].generator])
       \/ /\ threads[t].pc = "bind_view"
          /\ \E reached \in BOOLEAN :
                IF reached
                THEN /\ Free("view_info_cache_lock")
                     /\ catalog' = [catalog EXCEPT
                           !.view_info_cache =
                               @ \cup {ViewKey(catalog.generators[threads[t].generator].database_name,
                                               threads[t].arg)},
                           !.schemas[EntrySchema].views = @ \cup {threads[t].arg}]
                     /\ threads' = Returned(t, EntryResult(TRUE))
                ELSE /\ catalog' = catalog
                     /\ threads' = Returned(t, Raised("binding failed"))
          /\ locks' = [locks EXCEPT !["entry_lock"] = 0]
    /\ UNCHANGED <<flattenVars, pushdownVars, scanVars, exprVars, rewriteVars>>

\* MongoSchemaEntry::InvalidateCache is called and not defined: it leaves
\* the entry as it is or makes it load its entries again.
InvalidateCache(entry, again) ==
    IF again THEN [entry EXCEPT !.is_loaded = FALSE, !.loaded_collection_names = {}] ELSE entry

\* One step of MongoCatalog::ClearCache: the collection cache under its
\* lock, the release of that lock, the view-info cache under its lock, the
\* release of that lock, and the schemas under schemas_lock.
ClearCache(t) ==
    /\ \/ /\ threads[t].pc = "clear_collections"
          /\ Free("collection_cache_lock")
          /\ locks' = [locks EXCEPT !["collection_cache_lock"] = t]
          /\ catalog' = [catalog EXCEPT !.collection_cache = {}]
          /\ threads' = At(t, "release_collections")
       \/ /\ threads[t].pc = "release_collections"
          /\ locks' = [locks EXCEPT !["collection_cache_lock"] = 0]
          /\ catalog' = catalog
          /\ threads' = At(t, "clear_views")
       \/ /\ threads[t].pc = "clear_views"
          /\ Free("view_info_cache_lock")
          /\ locks' = [locks EXCEPT !["view_info_cache_lock"] = t]
          /\ catalog' = [catalog EXCEPT !.view_info_cache = {}]
          /\ threads' = At(t, "release_views")
       \/ /\ threads[t].pc = "release_views"
          /\ locks' = [locks EXCEPT !["view_info_cache_lock"] = 0]
          /\ catalog' = catalog
          /\ threads' = At(t, "clear_schemas")
       \/ /\ threads[t].pc = "clear_schemas"
          /\ Free("schemas_lock")
          /\ \E again \in BOOLEAN :
                catalog' = [catalog EXCEPT
                              !.schemas = [n \in DOMAIN @ |-> InvalidateCache(@[n], again)],
                              !.schemas_scanned = FALSE]
          /\ locks' = locks
          /\ threads' = Returned(t, Cleared)
    /\ UNCHANGED <<flattenVars, pushdownVars, scanVars, exprVars, rewriteVars>>

NextCatalog ==
    \E t \in Threads :
       \/ StartCall(t)
       \/ ScanSchemas(t)
       \/ LookupSchema(t)
       \/ TryLoadEntries(t)
       \/ LookupEntry(t)
       \/ ClearCache(t)

SpecCatalog == InitCatalog /\ [][NextCatalog]_vars

SpecClearCache == InitScanned /\ [][NextCatalog]_vars

(***************************************************************************)
(* Properties of the materialization.                                      *)
(***************************************************************************)
\* The element a column is read from: the direct field when the document
\* has it, else the element at the column's dotted path, else the element
\* found by the walk over the '_' segments of the column name.
LocatedElement(d, column_name, pm) ==
    IF Present(Lookup(d, column_name)) THEN Lookup(d, column_name)
    ELSE IF column_name \in DOMAIN pm THEN getElementByMongoPath(d, pm[column_name])
    ELSE getElementByPath(d, column_name)

\* The compatibility matrix of the specification (target <- sources).
AcceptedSources(type_id) ==
    CASE type_id \in {"BIGINT", "SMALLINT", "TINYINT"} -> {"int32", "int64", "double"}
      [] type_id \in {"HUGEINT", "DOUBLE", "FLOAT"} -> {"int32", "int64", "double", "decimal128"}
      [] type_id = "BOOLEAN" -> {"bool"}
      [] type_id \in {"DATE", "TIMESTAMP"} -> {"date"}
      [] type_id = "BLOB" -> {"binary"}
      [] type_id = "LIST" -> {"array"}
      [] type_id = "STRUCT" -> {"document"}
      [] OTHER -> {}

\* Column i of the schema has a type mismatch in the document.
ColumnMismatch(i) ==
    LET element == LocatedElement(doc, column_names[i], column_name_to_mongo_path)
    IN  /\ Present(element)
        /\ element.t # "null"
        /\ column_types[i].id # "VARCHAR"
        /\ element.t \notin AcceptedSources(column_types[i].id)

HasMismatch == \E i \in DOMAIN column_names : ColumnMismatch(i)

FirstMismatch == CHOOSE i \in DOMAIN column_names :
                    ColumnMismatch(i) /\ \A j \in DOMAIN column_names : ColumnMismatch(j) => i <= j

\* C1: with an inferred schema and permissive mode, materializing a row
\* never raises and leaves no column slot unwritten: every slot holds a
\* value or NULL.
C1_PermissiveInferredWritesEverySlot ==
    (~has_explicit_schema /\ schema_mode = "PERMISSIVE" /\ flatten_ret # "none")
        => /\ flatten_ret = "true"
           /\ \A i \in DOMAIN output : output[i] # Unset

\* C3: for every column of any type, a source element that is missing or
\* BSON null is written as SQL NULL.
C3_MissingOrNullIsSqlNull ==
    flatten_ret = "true"
        => \A i \in DOMAIN column_names :
              LET element == LocatedElement(doc, column_names[i], column_name_to_mongo_path)
              IN  (~Present(element) \/ element.t = "null") => output[i] = NullValue

\* C4: with an explicit schema, a type mismatch raises exactly when the mode
\* is failfast, and the error names the document _id, the field, the
\* expected type and the observed type.
C4_FailfastRaisesOnEveryMismatch ==
    (has_explicit_schema /\ flatten_ret # "none")
        => /\ flatten_ret = "throw" <=> (schema_mode = "FAILFAST" /\ HasMismatch)
           /\ flatten_ret = "throw"
                => flatten_err =
                     SchemaViolation(doc, column_names[FirstMismatch],
                        column_types[FirstMismatch].id,
                        LocatedElement(doc, column_names[FirstMismatch],
                                       column_name_to_mongo_path).t)

\* C5: with an explicit schema and dropmalformed mode, the validate-only
\* pass and the writing pass classify every document the same way, and a
\* document is kept if and only if no column of the schema has a mismatch.
C5_ValidateAndWriteAgree ==
    (has_explicit_schema /\ schema_mode = "DROPMALFORMED"
       /\ flatten_ret # "none" /\ validate_ret # "none")
        => /\ (validate_ret = "true") <=> (flatten_ret = "true")
           /\ (flatten_ret = "true") <=> ~HasMismatch

(***************************************************************************)
(* Properties of the type-compatibility check.                             *)
(***************************************************************************)
\* The scalar targets of the compatibility matrix.
ScalarTargets == {"BIGINT", "SMALLINT", "TINYINT", "HUGEINT", "DOUBLE", "FLOAT", "BOOLEAN",
                  "DATE", "TIMESTAMP", "BLOB"}

\* C19: for every scalar target of the compatibility matrix, the check used
\* for schema enforcement accepts a (non-null) source element exactly when
\* its BSON type is listed for the target: BIGINT, SMALLINT and TINYINT
\* accept int32, int64 and double only, a decimal128 source being a
\* mismatch; HUGEINT, DOUBLE and FLOAT also accept decimal128; BOOLEAN
\* accepts bool, DATE and TIMESTAMP accept date, BLOB accepts binary.
C19_CompatibleExactlyMatrix ==
    \A i \in DOMAIN column_names :
        LET Exact(element, type_id) ==
                (Present(element) /\ element.t \notin {"null", "undefined"}
                    /\ type_id \in ScalarTargets)
                    => (IsBSONTypeCompatible(element.t, type_id)
                            <=> element.t \in AcceptedSources(type_id))
        IN  Exact(LocatedElement(doc, column_names[i], column_name_to_mongo_path),
                  column_types[i].id)

\* Column i has a registered path, and its value is found neither as a
\* direct field nor at the registered path, but only by the walk over the
\* '_' segments of the column name.
ReachableOnlyByWalk(i) ==
    LET OnlyWalk(d, column_name, pm) ==
            /\ column_name \in DOMAIN pm
            /\ ~Present(Lookup(d, column_name))
            /\ ~Present(getElementByMongoPath(d, pm[column_name]))
            /\ Present(getElementByPath(d, column_name))
            /\ getElementByPath(d, column_name).t # "null"
    IN  OnlyWalk(doc, column_names[i], column_name_to_mongo_path)

\* C28: the walk over the '_' segments of a column name is used only for a
\* column without a registered path: for a column that has one, a value
\* reachable only through that walk is treated as missing and the column
\* is written as SQL NULL.
C28_WalkOnlyWithoutMapping ==
    flatten_ret = "true"
        => \A i \in DOMAIN column_names : ReachableOnlyByWalk(i) => output[i] = NullValue

(***************************************************************************)
(* Properties of the filter translation.                                   *)
(***************************************************************************)
\* A disjunction all of whose children are equality comparisons.
AllEqualityOr(filter) ==
    /\ filter.filter_type = "CONJUNCTION_OR"
    /\ \A i \in DOMAIN filter.child_filters : IsEqualityFilter(filter.child_filters[i])

\* {path: {$in: [v1, ..., vn]}} for the constants of the children.
InDocument(filter, path, type) ==
    <<kvp(path, QDoc(<<kvp("$in", ArrayElem([i \in DOMAIN filter.child_filters |->
                          BSONOfValue(filter.child_filters[i].constant, type, FALSE)]))>>))>>

UsesOr(query) == \E j \in DOMAIN query : query[j][1] = "$or"

\* The filter set holds the filter of column col_idx and no other.
OnlyFilter(col_idx) == DOMAIN table_filters = {col_idx}

\* C7: a disjunction whose children are all equality comparisons on one
\* column is translated to {path: {$in: [values]}}, by the filter pushdown
\* module and by the table function's translation alike; $or is written
\* only when some child of the disjunction is not an equality.
C7_EqualityDisjunctionIsIn ==
    /\ mongo_filter.done =>
          \A i \in DOMAIN table_filters :
             OnlyFilter(i) =>
                /\ AllEqualityOr(table_filters[i]) =>
                      mongo_filter.value =
                          InDocument(table_filters[i], MongoPath(column_names[i]), column_types[i])
                /\ UsesOr(mongo_filter.value) => ~AllEqualityOr(table_filters[i])
    /\ single_filter_doc.done =>
          LET i == single_filter_doc.col_idx
          IN  /\ AllEqualityOr(table_filters[i]) =>
                    single_filter_doc.value =
                        InDocument(table_filters[i], MongoPath(column_names[i]), column_types[i])
              /\ UsesOr(single_filter_doc.value) => ~AllEqualityOr(table_filters[i])

\* The predicates of the filter of column i, each translated on its own:
\* the children of a conjunction, or the filter itself.
ConjunctsOf(i) ==
    LET f == table_filters[i]
        path == MongoPath(column_names[i])
    IN  IF f.filter_type = "CONJUNCTION_AND"
        THEN [j \in DOMAIN f.child_filters |->
                 ConvertSingleFilterToMongo(f.child_filters[j], path, column_types[i])]
        ELSE <<ConvertSingleFilterToMongo(f, path, column_types[i])>>

AllConjuncts == ConcatAll([k \in DOMAIN SortedSeq(DOMAIN table_filters) |->
                              ConjunctsOf(SortedSeq(DOMAIN table_filters)[k])])

\* The filter set is a conjunction of two or more translated predicates
\* on the one path.
ConjunctionOnPath(path) ==
    /\ \A i \in DOMAIN table_filters : MongoPath(column_names[i]) = path
    /\ Len(AllConjuncts) >= 2
    /\ \A k \in DOMAIN AllConjuncts :
          /\ Len(AllConjuncts[k]) = 1
          /\ AllConjuncts[k][1][1] = path

\* C8: a conjunction of predicates on one path is translated to the single
\* pair {path: D}, D a document the database accepts, and a document
\* matches it exactly when its field satisfies every conjunct; this holds
\* also when a conjunct is an equality or IS NULL.
C8_ConjunctionMergedPerPath ==
    mongo_filter.done =>
       \A path \in {"a", "b", "status"} :
          ConjunctionOnPath(path) =>
             /\ Len(mongo_filter.value) = 1
             /\ mongo_filter.value[1][1] = path
             /\ mongo_filter.value[1][2].t = "document"
             /\ QueryValid(mongo_filter.value)
             /\ Matches(doc, mongo_filter.value)
                   <=> \A k \in DOMAIN AllConjuncts : Matches(doc, AllConjuncts[k])

(***************************************************************************)
(* Properties of the scan.                                                 *)
(***************************************************************************)
\* The bind data and the input the scan was initialised with.
ScanBindData == ScanOf(plan).bind_data

ScanInput == TableFunctionInitInput(plan)

\* The translation of the filter at position pos of the input's filter set.
TranslationOf(pos) ==
    LET s == ScanInput.column_ids[pos]
        name == ScanBindData.column_names[s]
    IN  ConvertSingleFilterToMongo(ScanInput.filters[pos],
                                   ScanBindData.column_name_to_mongo_path[name],
                                   ScanBindData.column_types[s])

\* The find filter holds the conjunct: it is the conjunct, or a $and with it.
ContainedIn(query, conjunct) ==
    \/ query = conjunct
    \/ /\ Len(query) = 1
       /\ query[1][1] = "$and"
       /\ \E i \in DOMAIN query[1][2].elems : query[1][2].elems[i] = QDoc(conjunct)

FilterPushed(pos) ==
    /\ TranslationOf(pos) # <<>>
    /\ ContainedIn(state.query_filter, TranslationOf(pos))

\* C2: every filter the engine hands to the scan is either contained in
\* the find filter or has its column in the requested set with the filters
\* not counted as pushed; a filter that could not be translated is never
\* counted as pushed because another filter of the set was translated.
C2_EveryFilterEnforced ==
    state.initialized =>
       \A pos \in DOMAIN ScanInput.filters :
          \/ FilterPushed(pos)
          \/ /\ ~state.filters_pushed_down
             /\ \E i \in DOMAIN state.requested_column_indices :
                   state.requested_column_indices[i] = ScanInput.column_ids[pos]

\* The query is SELECT COUNT(*) over the scan: an ungrouped aggregate with
\* the single expression count_star, not distinct.
IsCountStarQuery ==
    /\ Len(plan_in) >= 3
    /\ plan_in[2].type = "LOGICAL_AGGREGATE_AND_GROUP_BY"
    /\ plan_in[2].groups = <<>>
    /\ plan_in[2].expressions = <<CountStar(FALSE)>>
    /\ IsMongoScan(ScanOf(plan_in))

\* The rows emitted, once the scan has emitted its last chunk.
ScanEnded == IF chunks = <<>> THEN FALSE ELSE chunks[Len(chunks)] = <<>>

EmittedRows == ConcatAll(chunks)

LastStage(pipeline_json) == pipeline_json.json[Len(pipeline_json.json)]

\* C6: SELECT COUNT(*) is rewritten into a scan with the single BIGINT
\* column count whose pipeline ends in {$count: "count"}, and the scan
\* emits exactly one row holding a non-NULL BIGINT, also when the
\* collection or the match is empty.
C6_CountStarEmitsOneRow ==
    (IsCountStarQuery /\ optimized = "yes") =>
       /\ ScanBindData.column_names = <<"count">>
       /\ ScanBindData.column_types = <<BIGINT>>
       /\ LastStage(ScanBindData.pipeline_json) = QDoc(<<kvp("$count", Elem("string", "count"))>>)
       /\ (state.initialized /\ ScanEnded) =>
             /\ Len(EmittedRows) = 1
             /\ EmittedRows[1][1] # NullValue
             /\ EmittedRows[1][1] # Unset
             /\ EmittedRows[1][1].ty = BIGINT

\* C9: when the raw filter parameter is set, the find filter is exactly
\* the raw filter document, whether or not the engine supplied predicates.
C9_RawFilterReplaces ==
    (state.initialized /\ ScanBindData.filter_query # EmptyString) =>
       state.query_filter = from_json(ScanBindData.filter_query)

(***************************************************************************)
(* Properties of the requested columns.                                    *)
(***************************************************************************)
\* C25: after init_local the requested column names and types are listed
\* in the order of the engine's column-id list: the i-th requested column
\* is the i-th column the engine asked for, whatever the order of the
\* requested column ids, so that output slot i receives its value.
C25_RequestedInEngineOrder ==
    (state.initialized /\ state.requested_column_names # <<>>) =>
       \A i \in DOMAIN ScanInput.column_ids :
          LET InOrder(col_id, names, types) ==
                  IsSchemaColumn(col_id, names)
                     => /\ i \in DOMAIN state.requested_column_names
                        /\ state.requested_column_names[i] = names[col_id]
                        /\ state.requested_column_types[i] = types[col_id]
          IN  InOrder(ScanInput.column_ids[i], ScanBindData.column_names,
                      ScanBindData.column_types)

(***************************************************************************)
(* Properties of the plan rewriter.                                        *)
(***************************************************************************)
\* The plan handed in has a top-n at its root, and the plan now has none:
\* the top-n rewrite fired.
TopNRewritten ==
    /\ optimized = "yes"
    /\ plan_in[1].type = "LOGICAL_TOP_N"
    /\ \A i \in DOMAIN plan : plan[i].type # "LOGICAL_TOP_N"

\* The schema column a sort key reads: the key is a column reference that
\* leads, through column references of the projections, to a column the
\* scan produces; the scan's binding counts the positions of its
\* column-id list.  0 when the key is no such reference.
SortKeyColumn(p, key) ==
    LET get == ScanOf(p)
        projections == ProjectionChain(p, 1)
        r == FollowProjections(key.binding, projections, 1)
    IN  IF key.class # "BOUND_COLUMN_REF" THEN 0
        ELSE IF ~r.ok \/ r.binding.table_index # get.table_index THEN 0
        ELSE IF r.binding.column_index \notin DOMAIN get.column_ids THEN 0
        ELSE get.column_ids[r.binding.column_index]

\* [{$match: m}?, {$sort: {_id: 1 or -1}}, {$limit: k}]
IsTopNPipeline(pipeline_json, order_type, limit) ==
    LET stages == pipeline_json.json
        n == Len(stages)
    IN  /\ n \in {2, 3}
        /\ n = 3 => stages[1].kvs[1][1] = "$match"
        /\ stages[n - 1] = QDoc(<<kvp("$sort", QDoc(<<kvp("_id",
                                    JsonNumber(IF order_type = "ASCENDING" THEN 1 ELSE -1))>>))>>)
        /\ stages[n] = QDoc(<<kvp("$limit", JsonNumber(limit))>>)

\* C10: the top-n rewrite fires only when the offset is 0, the limit is
\* positive and the single sort key resolves through the projections to
\* the scan's _id column itself; it then sets the pipeline
\* [$match, $sort {_id: +-1}, $limit k], removes the top-n and keeps the
\* projections.
C10_TopNOnlyOnIdColumn ==
    TopNRewritten =>
       LET topn == plan_in[1]
           get == ScanOf(plan_in)
       IN  /\ topn.offset = 0
           /\ topn.limit > 0
           /\ Len(topn.orders) = 1
           /\ SortKeyColumn(plan_in, topn.orders[1].expression) # 0
           /\ get.bind_data.column_names[SortKeyColumn(plan_in, topn.orders[1].expression)] = "_id"
           /\ IsTopNPipeline(ScanOf(plan).bind_data.pipeline_json, topn.orders[1].type, topn.limit)
           /\ Len(plan) = Len(plan_in) - 1
           /\ \A i \in 1..(Len(plan) - 1) : plan[i] = plan_in[i + 1]


(***************************************************************************)
(* The projection document.                                                *)
(***************************************************************************)
\* The paths the projection document lists.
ProjectedPaths == {state.projection_document[j][1] : j \in DOMAIN state.projection_document}

\* The paths of the columns the scan requested.
RequestedPaths ==
    {ScanOf(plan).bind_data.column_name_to_mongo_path[state.requested_column_names[i]] :
        i \in DOMAIN state.requested_column_names}

\* p names a document above q: the segments of p begin those of q.
IsDottedPrefix(p, q) ==
    /\ Len(SplitDot(p)) < Len(SplitDot(q))
    /\ SubSeq(SplitDot(q), 1, Len(SplitDot(p))) = SplitDot(p)

\* C17: the projection document holds, for every requested path, the path
\* or an ancestor of it, never two paths of which one is a dotted prefix of
\* the other, and _id whenever it is not empty.
C17_ProjectionCoversRequested ==
    (state.initialized /\ ~state.threw) =>
        /\ \A p \in RequestedPaths : \E q \in ProjectedPaths : q = p \/ IsDottedPrefix(q, p)
        /\ \A p \in ProjectedPaths : \A q \in ProjectedPaths : ~IsDottedPrefix(p, q)
        /\ ProjectedPaths # {} => "_id" \in ProjectedPaths
(***************************************************************************)
(* Properties of the rewriter over a scan with the user's pipeline.        *)
(***************************************************************************)
\* The stages of the first pipeline lead the stages of the second.
LeadingStages(user_pipeline, pipeline_json) ==
    /\ pipeline_json # EmptyString
    /\ Len(user_pipeline.json) <= Len(pipeline_json.json)
    /\ SubSeq(pipeline_json.json, 1, Len(user_pipeline.json)) = user_pipeline.json

\* C29: when the scan under a top-n or an aggregate already carries the
\* user's pipeline, the rewriter leaves the plan unchanged or produces a
\* pipeline whose leading stages are the user's stages; the user's pipeline
\* is never replaced by one built from the scan's filters only.
C29_UserPipelineKept ==
    (optimized = "yes" /\ IsMongoScan(ScanOf(plan_in))
        /\ ScanOf(plan_in).bind_data.pipeline_json # EmptyString)
       => \/ plan = plan_in
          \/ LeadingStages(ScanOf(plan_in).bind_data.pipeline_json,
                           ScanOf(plan).bind_data.pipeline_json)

(***************************************************************************)
(* Properties of the walk of the rewriter.                                 *)
(***************************************************************************)
\* The walk ends with the plan MongoOptimizerOptimize computes in one go.
WalkAgreesWithOptimize ==
    optimized = "yes" => plan = MongoOptimizerOptimize(plan_in).plan

\* The operators of a plan, those of the second children included.
RECURSIVE NodesFrom(_, _)
NodesFrom(chain, i) ==
    IF i > Len(chain) THEN {}
    ELSE {chain[i]}
         \cup (IF chain[i].type = "LOGICAL_CROSS_PRODUCT" THEN NodesFrom(chain[i].right, 1)
               ELSE {})
         \cup NodesFrom(chain, i + 1)

\* The aggregates of the plan handed in that a pipeline scan has replaced:
\* the scan produces its columns under the aggregate's group index.
RewrittenAggregates ==
    {aggr \in NodesFrom(plan_in, 1) :
        /\ aggr.type = "LOGICAL_AGGREGATE_AND_GROUP_BY"
        /\ \E get \in NodesFrom(plan, 1) :
              get.type = "LOGICAL_GET" /\ get.table_index = aggr.group_index}

\* The bindings of the column references of an expression, at any depth,
\* from left to right.
RECURSIVE RefsOfExpr(_)
RECURSIVE RefsOfExprs(_, _)
RefsOfExpr(expr) ==
    CASE expr.class = "BOUND_COLUMN_REF" -> <<expr.binding>>
      [] expr.class = "BOUND_CAST" -> RefsOfExpr(expr.child)
      [] expr.class \in {"BOUND_AGGREGATE", "BOUND_FUNCTION"} -> RefsOfExprs(expr.children, 1)
      [] expr.class = "BOUND_COMPARISON" -> RefsOfExpr(expr.left) \o RefsOfExpr(expr.right)
      [] OTHER -> <<>>

RefsOfExprs(exprs, i) ==
    IF i > Len(exprs) THEN <<>> ELSE RefsOfExpr(exprs[i]) \o RefsOfExprs(exprs, i + 1)

\* The references of the expressions and sort keys of the operators of a
\* chain from position i on, the operators in skipped left out.
RECURSIVE RefsElsewhere(_, _, _)
RefsElsewhere(chain, i, skipped) ==
    IF i > Len(chain) THEN <<>>
    ELSE LET op == chain[i]
             own == IF op \in skipped THEN <<>>
                    ELSE (IF "expressions" \in DOMAIN op THEN RefsOfExprs(op.expressions, 1)
                          ELSE <<>>)
                         \o (IF "orders" \in DOMAIN op
                             THEN RefsOfExprs([k \in DOMAIN op.orders |-> op.orders[k].expression], 1)
                             ELSE <<>>)
                         \o (IF op.type = "LOGICAL_CROSS_PRODUCT"
                             THEN RefsElsewhere(op.right, 1, skipped) ELSE <<>>)
         IN  own \o RefsElsewhere(chain, i + 1, skipped)

\* What a reference to the output of a replaced aggregate has to become:
\* group i stays column i under the group index, aggregate j becomes column
\* group_count + j under the group index.
ExpectedBinding(binding, rewritten) ==
    IF \E aggr \in rewritten : binding.table_index = aggr.aggregate_index
    THEN LET aggr == CHOOSE aggr \in rewritten : binding.table_index = aggr.aggregate_index
         IN  ColumnBinding(aggr.group_index, Len(aggr.groups) + binding.column_index)
    ELSE binding

\* The scan that replaced the aggregate produces the groups first and the
\* aggregates after them, every column of its schema in schema order.
ReplacementOutput(aggr) ==
    LET Is(get) ==
            /\ get.column_ids = [c \in 1..(Len(aggr.groups) + Len(aggr.expressions)) |-> c]
            /\ Len(get.bind_data.column_names) = Len(get.column_ids)
            /\ \A i \in DOMAIN aggr.groups :
                  get.bind_data.column_names[i] = ScanNames[aggr.groups[i].binding.column_index]
            /\ \A j \in DOMAIN aggr.expressions :
                  get.bind_data.column_names[Len(aggr.groups) + j]
                     \in {"__agg" \o ToString(j - 1), "count"}
    IN  Is(CHOOSE get \in NodesFrom(plan, 1) :
              get.type = "LOGICAL_GET" /\ get.table_index = aggr.group_index)

\* C23: after aggregates have been replaced by pipeline scans, every column
\* reference in the expressions and sort keys of the other operators, at
\* any depth, that referred to the i-th group of a replaced aggregate
\* refers to output column i of its scan and every reference to its j-th
\* aggregate to output column group_count + j; each reference is rewritten
\* once, also when two aggregates of the plan were replaced.
C23_ReferencesFollowReplacement ==
    (optimized = "yes" /\ RewrittenAggregates # {}) =>
        LET Agree(before, after, rewritten) ==
                /\ Len(after) = Len(before)
                /\ \A r \in DOMAIN before : after[r] = ExpectedBinding(before[r], rewritten)
        IN  /\ Agree(RefsElsewhere(plan_in, 1, RewrittenAggregates),
                     RefsElsewhere(plan, 1, {}), RewrittenAggregates)
            /\ \A aggr \in RewrittenAggregates : ReplacementOutput(aggr)

\* Two aggregates with groups were replaced under an operator that refers
\* to groups and aggregates of both.
C23_Witness ==
    /\ optimized = "yes"
    /\ Len(binding_rules) = 2
    /\ \A aggr \in RewrittenAggregates : aggr.groups # <<>>
    /\ plan[Len(plan_in) - 3].type \in {"LOGICAL_TOP_N", "LOGICAL_ORDER_BY", "LOGICAL_FILTER"}

\* The attempt at the node now visited fires neither rewrite and raises
\* nothing: the chain the node is in keeps its length.
AttemptFails ==
    /\ optimized = "no"
    /\ visit # <<>>
    /\ optimized' = "no"
    /\ Len(ChainAt(plan', Head(visit))) = Len(ChainAt(plan, Head(visit)))

\* C24: a rewrite attempt at a node is all or nothing: when a precondition
\* of the top-n and of the aggregate rewrite fails, the plan, with the
\* node, the scan's bind data and its named parameters, and the list of
\* binding rules are as before the attempt, and the node's children are
\* the next nodes visited.
C24_FailedAttemptChangesNothing ==
    [][AttemptFails => /\ plan' = plan
                       /\ binding_rules' = binding_rules
                       /\ visit' = ChildrenOf(plan, Head(visit)) \o Tail(visit)]_vars

\* The attempt at an aggregate over a scan of this extension has failed and
\* the walk is at the aggregate's child.
C24_Witness ==
    /\ optimized = "no"
    /\ visit # <<>>
    /\ Len(Head(visit)) = 1
    /\ Head(visit)[1] > 1
    /\ plan[Head(visit)[1] - 1].type = "LOGICAL_AGGREGATE_AND_GROUP_BY"
    /\ IsMongoScan(plan[Len(plan)])
    /\ plan = plan_in

(***************************************************************************)
(* Properties of one worker's successive calls of the scan function.       *)
(***************************************************************************)
\* The documents the cursor returns: what find gave when it was opened.
CursorReturned ==
    FindResult(collection, state.query_filter, state.projection_document, state.limit)

\* The number of rows the calls before call c emitted.
RECURSIVE RowsBefore(_)
RowsBefore(c) == IF c <= 1 THEN 0 ELSE RowsBefore(c - 1) + Len(chunks[c - 1])

\* The row shows the document: its slot of column a holds the document's
\* field a, NULL when the document has none.
RowShows(row, d) ==
    \A p \in DOMAIN state.requested_column_indices :
        (state.requested_column_indices[p] = 2 /\ p <= Len(row)) =>
            IF "a" \in DOMAIN d THEN row[p].k = "VAL" /\ row[p].v = d["a"].v
            ELSE row[p] = NullValue

\* C11: over the successive calls of one worker's scan in permissive mode,
\* every document the cursor returned is emitted as exactly one row, in
\* cursor order, at most STANDARD_VECTOR_SIZE rows per call; once the
\* cursor has drained the state is finished and every later call emits no
\* row.
C11_CursorEmittedInOrder ==
    (state.initialized /\ ~state.threw) =>
       /\ Len(EmittedRows) + Len(state.cursor) = Len(CursorReturned)
       /\ \A i \in DOMAIN EmittedRows : RowShows(EmittedRows[i], CursorReturned[i])
       /\ \A c \in DOMAIN chunks : Len(chunks[c]) <= STANDARD_VECTOR_SIZE
       /\ (chunks # <<>> /\ state.cursor = <<>>) => state.finished
       /\ \A c \in DOMAIN chunks :
             (c > 1 /\ RowsBefore(c) = Len(CursorReturned)) => chunks[c] = <<>>

\* Three documents were returned, the calls emitted them in two batches and
\* a later call emitted nothing.
C11_Witness ==
    /\ state.initialized
    /\ Len(CursorReturned) = 3
    /\ Len(chunks) >= 3
    /\ Len(chunks[1]) = 2
    /\ Len(chunks[2]) = 1
    /\ chunks[3] = <<>>
    /\ EmittedRows[1] # EmittedRows[3]
    /\ state.finished

(***************************************************************************)
(* Properties of the catalog under concurrent calls.                       *)
(***************************************************************************)
CatalogTypeOK ==
    /\ \A t \in Threads : threads[t].pc = "idle" => \A l \in LockNames : locks[l] # t
    /\ \A l \in LockNames : locks[l] \in {0} \cup Threads

\* The mutexes thread t holds.
Held(t) == {l \in LockNames : locks[l] = t}

\* C26: no mutex of the catalog or of a schema entry is held by a thread
\* while that thread is in a call to the server (listing databases or
\* collections, or binding a view).
C26_NoLockAcrossNetworkCall ==
    \A t \in Threads : threads[t].pc \in NetworkSteps => Held(t) = {}

\* A call of ScanSchemas by thread t is over: the thread is back at its
\* caller, or in the LookupSchema that made the call.
ScanOver(t) ==
    \/ threads[t].op = "ScanSchemas" /\ threads[t].pc = "idle"
    \/ threads[t].op = "LookupSchema" /\ threads[t].pc \in {"idle", "lookup", "lookup_create",
                                                            "lookup_generator"}

\* C22: a failure of the listing of the databases or collections during
\* the schema scan is absorbed: the scan raises no error to its caller,
\* on the first attempt as on later ones, and hands out the schemas there
\* are, none when the listing failed.
C22_ScanFailureAbsorbed ==
    \A t \in Threads :
       ScanOver(t) =>
          /\ threads[t].result # Raised("listing failed")
          /\ threads[t].op = "ScanSchemas" => threads[t].result.kind = "schemas"

\* A thread is in the schema scan and has not created the schemas yet.
Scanning(u) == threads[u].pc \in {"scan_list", "scan_create"}

\* Thread t has read schemas_scanned as true and is about to search the
\* schema map.
SawScanned(t) == threads[t].pc = "lookup"

\* The listing of the scan did not fail for any thread.
ServerReached == \A u \in Threads : threads[u].result # Raised("listing failed")

\* C30: no thread observes schemas_scanned as true while the scanning
\* thread has not populated the schema map, and a lookup of the schema of
\* the existing database shop returns that schema, not an error.
C30_ScannedMeansPopulated ==
    /\ \A t \in Threads :
          (SawScanned(t) /\ \E u \in Threads \ {t} : Scanning(u)) =>
             ScannedNames(catalog) \subseteq DOMAIN catalog.schemas
    /\ \A t \in Threads :
          (/\ ServerReached
           /\ threads[t].op = "LookupSchema"
           /\ threads[t].arg = EntrySchema
           /\ threads[t].pc = "idle") => threads[t].result = SchemaResult(EntrySchema)

\* The mutexes the next step of thread t has to find free.
Needs(t) ==
    LET pc == threads[t].pc
    IN  IF pc \in {"scan_check", "scan_create", "lookup", "lookup_create", "clear_schemas"}
        THEN {"schemas_lock"}
        ELSE IF pc \in {"scan_generator", "load_store", "entry_lock"} THEN {"entry_lock"}
        ELSE IF pc = "lookup_generator" /\ threads[t].arg = EntrySchema THEN {"entry_lock"}
        ELSE IF pc = "load_lock" THEN {"load_lock"}
        ELSE IF pc \in {"load_names", "entry_names", "clear_collections"}
        THEN {"collection_cache_lock"}
        ELSE IF pc \in {"entry_create", "bind_view", "clear_views"} THEN {"view_info_cache_lock"}
        ELSE {}

\* Thread t waits for a mutex thread u holds.
Waits(t, u) == t # u /\ \E l \in Needs(t) : locks[l] = u

\* A set of threads each of which waits for another of the set.
WaitCycle(S) == S # {} /\ \A t \in S : \E u \in S : Waits(t, u)

\* Thread t is inside the generator its schema entry had when the call
\* began, and that generator has been destroyed since.
UsesDestroyedGenerator(t) ==
    /\ threads[t].pc \in {"load_names", "load_store"}
    /\ ~catalog.generators[threads[t].generator].alive

\* C21: clearing the caches is safe while lookups, scans and loads run on
\* other threads: the two cache locks are never held together, no set of
\* threads waits in a cycle for the mutexes, and a call that began before
\* the clearing is not affected by it, so it never finds itself inside a
\* generator that was destroyed under it.
C21_ClearCacheSafe ==
    /\ \A t \in Threads : ~({"collection_cache_lock", "view_info_cache_lock"} \subseteq Held(t))
    /\ \A S \in SUBSET Threads : ~WaitCycle(S)
    /\ \A t \in Threads : ~UsesDestroyedGenerator(t)

(***************************************************************************)
(* Properties of the resolved schema.                                      *)
(***************************************************************************)
\* C12: every resolved schema has as many column types and path_map
\* entries as column names, pairwise distinct column names, a path_map
\* entry for every column name, and the column _id.
C12_ResolvedSchemaWellFormed ==
    /\ Len(column_names) = Len(column_types)
    /\ Len(column_names) = Cardinality(DOMAIN column_name_to_mongo_path)
    /\ \A i, j \in DOMAIN column_names : column_names[i] = column_names[j] => i = j
    /\ \A i \in DOMAIN column_names : column_names[i] \in DOMAIN column_name_to_mongo_path
    /\ \E i \in DOMAIN column_names : column_names[i] = "_id"


(***************************************************************************)
(* The type resolved for a field of mixed types.                           *)
(***************************************************************************)
\* The types inferred for field a, one a sampled document.
SampledTypes == [i \in DOMAIN collection |-> InferTypeFromBSONElement(collection[i]["a"])]

\* count / total >= num / 10, on exact fractions.
AtLeastTenths(count, total, num) == count * 10 >= num * total

\* The type the frequency rules give, on exact fractions.
ByFrequency(types) ==
    IF CountOf(types, VARCHAR) * 10 > 7 * Len(types) THEN VARCHAR
    ELSE IF CountOf(types, DOUBLE) > 0 /\ AtLeastTenths(CountOf(types, DOUBLE), Len(types), 3)
    THEN DOUBLE
    ELSE IF CountOf(types, BIGINT) > 0 /\ AtLeastTenths(CountOf(types, BIGINT), Len(types), 3)
    THEN BIGINT
    ELSE IF AtLeastTenths(CountOf(types, SQLBOOLEAN), Len(types), 7) THEN SQLBOOLEAN
    ELSE IF AtLeastTenths(CountOf(types, TIMESTAMP), Len(types), 7) THEN TIMESTAMP
    ELSE IF CountOf(types, DOUBLE) > 0 THEN DOUBLE
    ELSE IF CountOf(types, BIGINT) > 0 THEN BIGINT
    ELSE IF CountOf(types, SQLBOOLEAN) > 0 THEN SQLBOOLEAN
    ELSE IF CountOf(types, TIMESTAMP) > 0 THEN TIMESTAMP
    ELSE VARCHAR

\* C18: the type of a column whose field holds scalars of several types is
\* the one the frequency rules give on the exact shares of the types: one
\* DOUBLE among three BIGINT is a quarter, below 30%, and gives BIGINT.
C18_ResolvedByExactShare ==
    \A i \in DOMAIN column_names :
        column_names[i] = "a" => column_types[i] = ByFrequency(SampledTypes)
(***************************************************************************)
(* Properties of binding again with an inferred schema.                    *)
(***************************************************************************)
\* The columns of a schema as a set of (name, type) pairs.
ColumnSet(names, types) == {<<names[i], types[i]>> : i \in DOMAIN names}

\* C20: after a schema produced by sample inference is bound again as the
\* explicit columns parameter (name -> type string), the resolved schema has
\* the same column names with the same column types, up to the position of
\* _id, and the same path_map, also for the columns inference flattened
\* from nested documents.
C20_RebindSameSchema ==
    has_explicit_schema
        => LET Same(inferred) ==
                   /\ Len(column_names) = Len(inferred.column_names)
                   /\ ColumnSet(column_names, column_types)
                        = ColumnSet(inferred.column_names, inferred.column_types)
                   /\ column_name_to_mongo_path = inferred.column_name_to_mongo_path
           IN  Same(InferSchemaFromDocuments(collection))


(***************************************************************************)
(* Arrays materialized into LIST columns.                                  *)
(***************************************************************************)
\* The array the document holds under a, and the declared type of column a.
ListInput == doc["a"].elems

ListColumn == CHOOSE i \in DOMAIN column_names : column_names[i] = "a"

\* The value has the type at every level; NULL has every type.
RECURSIVE HasType(_, _)
HasType(value, ty) ==
    CASE value.k = "NULL" -> TRUE
      [] value.k = "VAL" -> ty.id # "LIST" /\ value.ty = ty.id
      [] value.k = "LIST" -> ty.id = "LIST" /\ \A i \in DOMAIN value.elems : HasType(value.elems[i], ty.child)
      [] OTHER -> FALSE

\* The scalars of an array in document order, nested arrays opened up.
RECURSIVE ArrayLeaves(_)
ArrayLeaves(array) ==
    IF array = <<>> THEN <<>>
    ELSE (IF array[1].t = "array" THEN ArrayLeaves(array[1].elems) ELSE <<array[1]>>)
         \o ArrayLeaves(SubSeq(array, 2, Len(array)))

\* The leaves of a list value in order, with the depth each one lies at.
RECURSIVE ListLeaves(_, _)
ListLeaves(value, depth) ==
    IF value.k # "LIST" THEN <<[value |-> value, depth |-> depth]>>
    ELSE ConcatAll([i \in DOMAIN value.elems |-> ListLeaves(value.elems[i], depth + 1)])

\* C13: a non-empty array deeper than the declared LIST type gives NULL for
\* the whole list; any other non-empty array gives a list value that has the
\* declared type at every level, and when the array is shallower every scalar
\* of it, wherever it is nested, lies in the result wrapped in lists down to
\* the declared depth.
C13_ListDepthAligned ==
    (flatten_ret = "true" /\ ListInput # <<>> /\ column_types[ListColumn].id = "LIST") =>
        LET declared == GetListTypeDepth(column_types[ListColumn])
            actual == GetBSONArrayDepth(ListInput, 10)
            result == output[ListColumn]
        IN  IF actual > declared THEN result = NullValue
            ELSE /\ result.k = "LIST"
                 /\ HasType(result, column_types[ListColumn])
                 /\ actual < declared =>
                       /\ Len(ListLeaves(result, 0)) = Len(ArrayLeaves(ListInput))
                       /\ \A i \in DOMAIN ListLeaves(result, 0) :
                             /\ ListLeaves(result, 0)[i].depth = declared
                             /\ ListLeaves(result, 0)[i].value =
                                   CastScalar(ArrayScalarValue(ArrayLeaves(ListInput)[i]),
                                              BaseType(column_types[ListColumn], declared))

(***************************************************************************)
(* Documents and arrays materialized into VARCHAR columns.                 *)
(***************************************************************************)
\* The positions of a text that lie outside its string literals.
RECURSIVE OutsideFrom(_, _, _, _)
OutsideFrom(text, i, in_string, escaped) ==
    IF i > Len(text) THEN {}
    ELSE IF in_string
    THEN IF escaped THEN OutsideFrom(text, i + 1, TRUE, FALSE)
         ELSE IF text[i] = "\\" THEN OutsideFrom(text, i + 1, TRUE, TRUE)
         ELSE OutsideFrom(text, i + 1, text[i] # Quote, FALSE)
    ELSE IF text[i] = Quote THEN OutsideFrom(text, i + 1, TRUE, FALSE)
    ELSE {i} \cup OutsideFrom(text, i + 1, FALSE, FALSE)

Compact(text) == \A i \in OutsideFrom(text, 1, FALSE, FALSE) : text[i] # " "

\* The columns whose slot received the JSON text of a document or an array.
JsonSlots ==
    {i \in DOMAIN output : output[i].k = "VAL" /\ output[i].ty = "VARCHAR" /\ output[i].v.form = "json"}

\* C14: the text written into a VARCHAR column for an array or a document
\* has no space outside its string literals, whatever the serializer wrote
\* around the brackets, braces, colons and commas.
C14_JsonTextCompact ==
    flatten_ret = "true" => \A i \in JsonSlots : Compact(JsonText(output[i].v.of))

(***************************************************************************)
(* ObjectId constants in the translated filter.                            *)
(***************************************************************************)
\* The constants of a query document, each with the path it is compared
\* against: the nearest key above it that is not an operator.
RECURSIVE ComparedConstants(_, _)
ComparedConstants(value, path) ==
    CASE value.t = "document" ->
            UNION {ComparedConstants(value.kvs[j][2],
                                     IF IsDollarKey(value.kvs[j][1]) THEN path ELSE value.kvs[j][1]) :
                   j \in DOMAIN value.kvs}
      [] value.t = "array" ->
            UNION {ComparedConstants(value.elems[i], path) : i \in DOMAIN value.elems}
      [] OTHER -> {[path |-> path, constant |-> value]}

\* C15: in the emitted filter a string constant of 24 hexadecimal digits
\* compared against a path that is _id, ends in ._id or ends in _id is an
\* ObjectId, in a comparison, an IN list, a disjunct and under a struct
\* path alike; no other constant is an ObjectId.
C15_ObjectIdConversion ==
    mongo_filter.done =>
        \A c \in ComparedConstants(QDoc(mongo_filter.value), "") :
            /\ (c.constant.t = "string" /\ IsValidObjectIdHex(c.constant.v))
                  => ~IsObjectIdColumn(c.path)
            /\ c.constant.t = "oid"
                  => (IsObjectIdColumn(c.path) /\ IsValidObjectIdHex(c.constant.v))

(***************************************************************************)
(* Substring calls pushed into $expr.                                      *)
(***************************************************************************)
\* The substring call a filter expression compares, if it compares one.
SubstringOf(expr) ==
    IF expr.class # "BOUND_COMPARISON" THEN NoColumnRef
    ELSE IF expr.left.class = "BOUND_FUNCTION"
            /\ Lower(expr.left.name) \in {"substring", "substr"} THEN expr.left
    ELSE IF expr.right.class = "BOUND_FUNCTION"
            /\ Lower(expr.right.name) \in {"substring", "substr"} THEN expr.right
    ELSE NoColumnRef

\* The start is a constant of at least 1 and the length one of at least 0.
InRange(call) ==
    /\ call.children[2].class = "BOUND_CONSTANT"
    /\ call.children[3].class = "BOUND_CONSTANT"
    /\ call.children[2].value.v >= 1
    /\ call.children[3].value.v >= 0

\* The argument lists of the $substrCP operators of an emitted document.
RECURSIVE SubstrCPArgs(_)
SubstrCPArgs(value) ==
    CASE value.t = "document" ->
            UNION {IF value.kvs[j][1] = "$substrCP" THEN {value.kvs[j][2].elems}
                   ELSE SubstrCPArgs(value.kvs[j][2]) : j \in DOMAIN value.kvs}
      [] value.t = "array" -> UNION {SubstrCPArgs(value.elems[i]) : i \in DOMAIN value.elems}
      [] OTHER -> {}

\* C16: a comparison over a substring call is removed from the filter
\* vector and emitted as $substrCP only when the start is a constant of at
\* least 1 and the length a constant of at least 0, whatever the engine's
\* volatile and can-throw flags; every other one stays in the vector; and an
\* emitted start is never negative.
C16_SubstringOnlyInRange ==
    complex_filter_expr.done =>
        /\ \A i \in DOMAIN expressions :
              (SubstringOf(expressions[i]) # NoColumnRef /\ ~InRange(SubstringOf(expressions[i])))
                 => \E k \in DOMAIN remaining : remaining[k] = expressions[i]
        /\ \A args \in SubstrCPArgs(QDoc(complex_filter_expr.value)) : args[2].v >= 0
\* The filter is one MongoPushdownComplexFilter converts and removes.
IsConverted(f) ==
    /\ ~IsSimpleColumnToConstantComparison(f)
    /\ ConvertExpressionToMongoExpr(f, column_names, column_name_to_mongo_path, 1).ok

\* The conjuncts of a stored expression: the members of its nested $and.
RECURSIVE ConjunctsOfExpr(_)
ConjunctsOfExpr(expr) ==
    IF expr = <<>> THEN <<>>
    ELSE IF Len(expr) = 1 /\ expr[1][1] = "$and"
    THEN ConjunctsOfExpr(expr[1][2].elems[1].kvs) \o <<expr[1][2].elems[2].kvs>>
    ELSE <<expr>>

\* The expressions of the converted filters among those handed in, in order.
ConvertedExprs ==
    LET removed == SelectSeq(expressions, IsConverted)
    IN  [i \in DOMAIN removed |->
            ConvertExpressionToMongoExpr(removed[i], column_names,
                                         column_name_to_mongo_path, 1).doc]

\* C27: after any sequence of pushdown calls on the same bind state the
\* surviving filters are exactly the filters handed in that were not
\* converted, in their order, and complex_filter_expr is the conjunction of
\* every filter any of the calls removed: a later call never discards the
\* expression an earlier call stored.
C27_StoredExprCoversAllCalls ==
    complex_filter_expr # NotDone =>
        /\ LET NotConvertedFilter(f) == ~IsConverted(f)
           IN  remaining = SelectSeq(expressions, NotConvertedFilter)
        /\ ConjunctsOfExpr(complex_filter_expr.value) = ConvertedExprs

====
